---- MODULE Spec2Model ----
(***************************************************************************)
(* A model of the rust-nes CPU core (src/src/cpu.rs), its instruction      *)
(* decoder (src/src/instruction.rs), the system container (src/src/nes.rs) *)
(* and the PPU register bus (src/src/ppu_register_bus.rs).                  *)
(*                                                                         *)
(* The fields of Cpu, Nes and PpuRegisterBus are the variables.  A handler *)
(* of the source is an operator from a machine record (all those fields,   *)
(* plus `panic`) to a machine record; a Rust function that also returns a  *)
(* value is an operator to a pair R(m, v).  A Rust panic (panic!, todo!,   *)
(* an index out of range, an arithmetic overflow in a build with overflow  *)
(* checks) sets `panic`; a machine that has panicked no longer changes.    *)
(***************************************************************************)
EXTENDS Integers, Sequences, FiniteSets, TLC

VARIABLES
    a, x, y, pc, s, status, ram,     \* Cpu (cpu.rs:43-53)
    prg_rom,                         \* Nes.cassette.prg_rom (nes.rs:9, cassette.rs:14)
    cpu_interruption,                \* Nes.cpu_interruption (used by cpu.rs:75,93,324)
    ppu_addr_higher, ppu_addr,       \* PpuRegisterBus (ppu_register_bus.rs:9-14)
    ppu_data, ppu_data_status,
    panic,                           \* "" while the process runs, else why it aborted
    overflow_checks,                 \* the build: TRUE panics on integer overflow, FALSE wraps
    memory,                          \* Memory (memory.rs:20-24)
    ppu,                             \* Ppu (ppu.rs:59-68)
    phase,                           \* position of the driver / of the harness
    last,                            \* what the last operation was given and returned
    steps                            \* operations done so far

vars == <<a, x, y, pc, s, status, ram, prg_rom, cpu_interruption,
          ppu_addr_higher, ppu_addr, ppu_data, ppu_data_status,
          panic, overflow_checks, memory, ppu, phase, last, steps>>

-----------------------------------------------------------------------------
(* Constants of the source *)

RAM_SIZE == 2048
PRG_ROM_BASE == 32768
PRG_ROM_UNIT_SIZE == 16384
Word == 65536
Byte == 256
VRAM_SIZE == 2048
VISIBLE_SCREEN_HEIGHT == 240
CYCLES_PER_SCANLINE == 341
SCANLINES_PER_FRAME == 262
CYCLES_PER_FRAME == CYCLES_PER_SCANLINE * SCANLINES_PER_FRAME
RENDERING_BATCH_LINES == 16
RENDERING_BATCH_NUM == VISIBLE_SCREEN_HEIGHT \div RENDERING_BATCH_LINES

\* Flag -> u8 (cpu.rs:20-32)
Carry == 1
Zero == 2
InterruptDisable == 4
Decimal == 8
Break == 16
Overflow == 64
Negative == 128

NoPanic == ""

\* Option<T>
None == <<>>
Some(v) == <<v>>
Unwrap(o) == o[1]

\* the result of a function that returns a value: the machine after it, and the value
R(m, v) == [m |-> m, v |-> v]

Ok(m) == m.panic = NoPanic
Panic(m, why) == IF Ok(m) THEN [m EXCEPT !.panic = why] ELSE m

\* bit `bit` (a power of two) of v is set
Bit(v, bit) == (v \div bit) % 2 = 1

\* u8 as i8
AsI8(v) == IF v >= 128 THEN v - 256 ELSE v

-----------------------------------------------------------------------------
(* Arrays that start all zero are kept as the function of their non-zero   *)
(* cells: a cell outside the domain holds 0.                               *)

Get(mem, i) == IF i \in DOMAIN mem THEN mem[i] ELSE 0

Set(mem, i, v) ==
    IF v = 0
    THEN [j \in (DOMAIN mem) \ {i} |-> mem[j]]
    ELSE [j \in (DOMAIN mem) \cup {i} |-> IF j = i THEN v ELSE mem[j]]

-----------------------------------------------------------------------------
(* Instruction decoder (instruction.rs) *)

Op(name) == <<name>>
UNKNOWN(byte) == <<"UNKNOWN", byte>>
Instruction(opcode, mode, cycle) == <<opcode, mode, cycle>>

KilBytes == {\h02, \h12, \h22, \h32, \h42, \h52, \h62, \h72, \h92, \hB2, \hD2, \hF2}
NopZeroPage == {\h04, \h44, \h64}
NopZeroPageX == {\h14, \h34, \h54, \h74, \hD4, \hF4}
NopImplied == {\h1A, \h3A, \h5A, \h7A, \hDA, \hFA}
NopAbsoluteX == {\h1C, \h3C, \h5C, \h7C, \hDC, \hFC}
NopImmediate == {\h80, \h82, \h89, \hC2, \hE2}

\* a default arm that drops the byte
DecodeDefaultNoByte(opcode) == Instruction(UNKNOWN(0), "UNKNOWN", 0)

DecodeDefault(opcode) == Instruction(UNKNOWN(opcode), "UNKNOWN", 0)

Decode(opcode) ==
    CASE opcode = \h0A -> Instruction(Op("ASL"), "Accumulator", 2)
      [] opcode = \h06 -> Instruction(Op("ASL"), "ZeroPage", 5)
      [] opcode = \h16 -> Instruction(Op("ASL"), "ZeroPageX", 6)
      [] opcode = \h0E -> Instruction(Op("ASL"), "Absolute", 6)
      [] opcode = \h1E -> Instruction(Op("ASL"), "AbsoluteX", 7)
      [] opcode = \h30 -> Instruction(Op("BMI"), "Relative", 2)
      [] opcode = \hD0 -> Instruction(Op("BNE"), "Relative", 2)
      [] opcode = \h10 -> Instruction(Op("BPL"), "Relative", 2)
      [] opcode = \h00 -> Instruction(Op("BRK"), "Implied", 7)
      [] opcode = \h50 -> Instruction(Op("BVC"), "Relative", 2)
      [] opcode = \h18 -> Instruction(Op("CLC"), "Implied", 2)
      [] opcode = \hD8 -> Instruction(Op("CLD"), "Implied", 2)
      [] opcode = \h58 -> Instruction(Op("CLI"), "Implied", 2)
      [] opcode = \hB8 -> Instruction(Op("CLV"), "Implied", 2)
      [] opcode = \hC9 -> Instruction(Op("CMP"), "Immediate", 2)
      [] opcode = \hC5 -> Instruction(Op("CMP"), "ZeroPage", 3)
      [] opcode = \hD1 -> Instruction(Op("CMP"), "IndirectIndexed", 5)
      [] opcode = \hC6 -> Instruction(Op("DEC"), "ZeroPage", 5)
      [] opcode = \hD6 -> Instruction(Op("DEC"), "ZeroPageX", 6)
      [] opcode = \h88 -> Instruction(Op("DEY"), "Implied", 2)
      [] opcode = \hE8 -> Instruction(Op("INX"), "Implied", 2)
      [] opcode = \h4C -> Instruction(Op("JMP"), "Absolute", 3)
      [] opcode = \h20 -> Instruction(Op("JSR"), "Absolute", 6)
      [] opcode = \hA9 -> Instruction(Op("LDA"), "Immediate", 2)
      [] opcode = \hA5 -> Instruction(Op("LDA"), "ZeroPage", 3)
      [] opcode = \hB5 -> Instruction(Op("LDA"), "ZeroPageX", 4)
      [] opcode = \hAD -> Instruction(Op("LDA"), "Absolute", 4)
      [] opcode = \hBD -> Instruction(Op("LDA"), "AbsoluteX", 4)
      [] opcode = \hB9 -> Instruction(Op("LDA"), "AbsoluteY", 4)
      [] opcode = \hA1 -> Instruction(Op("LDA"), "IndexedIndirect", 6)
      [] opcode = \hB1 -> Instruction(Op("LDA"), "IndirectIndexed", 4)
      [] opcode = \hA2 -> Instruction(Op("LDX"), "Immediate", 2)
      [] opcode = \hA0 -> Instruction(Op("LDY"), "Immediate", 2)
      [] opcode = \h78 -> Instruction(Op("SEI"), "Implied", 2)
      [] opcode = \h8D -> Instruction(Op("STA"), "Absolute", 4)
      [] opcode = \h9A -> Instruction(Op("TXS"), "Implied", 2)
      [] opcode = \hFF -> Instruction(Op("ISC"), "AbsoluteX", 7)
      [] opcode \in KilBytes -> Instruction(Op("KIL"), "Implied", 2)
      [] opcode = \h03 -> Instruction(Op("SLO"), "IndexedIndirect", 8)
      [] opcode \in NopZeroPage -> Instruction(Op("NOP"), "ZeroPage", 3)
      [] opcode = \h0C -> Instruction(Op("NOP"), "Absolute", 4)
      [] opcode \in NopZeroPageX -> Instruction(Op("NOP"), "ZeroPageX", 4)
      [] opcode \in NopImplied -> Instruction(Op("NOP"), "Implied", 2)
      [] opcode \in NopAbsoluteX -> Instruction(Op("NOP"), "AbsoluteX", 4)
      [] opcode \in NopImmediate -> Instruction(Op("NOP"), "Immediate", 2)
      [] OTHER -> DecodeDefault(opcode)

-----------------------------------------------------------------------------
(* PPU registers (ppu.rs:21-47) and the register bus (ppu_register_bus.rs) *)

\* From<Register> for usize
RegisterAddr(r) ==
    CASE r = "PPUCTRL" -> \h2000
      [] r = "PPUMASK" -> \h2001
      [] r = "PPUSTATUS" -> \h2002
      [] r = "OAMADDR" -> \h2003
      [] r = "OAMDATA" -> \h2004
      [] r = "PPUSCROLL" -> \h2005
      [] r = "PPUADDR" -> \h2006
      [] r = "PPUDATA" -> \h2007
      [] r = "OAMDMA" -> \h4014

Registers ==
    {"PPUCTRL", "PPUMASK", "PPUSTATUS", "OAMADDR", "OAMDATA", "PPUSCROLL",
     "PPUADDR", "PPUDATA", "OAMDMA"}

\* addr.into(): the register that lives at a CPU address
RegisterFrom(addr) == CHOOSE r \in Registers : RegisterAddr(r) = addr

\* PpuRegisterBus::cpu_read
cpu_read(m, addr) ==
    LET r == RegisterFrom(addr) IN
    IF ~Ok(m) THEN R(m, 0)
    ELSE IF r = "PPUADDR" THEN R(Panic(m, "Forbidden to read PPUADDR from CPU"), 0)
    ELSE IF r = "PPUDATA" THEN R([m EXCEPT !.ppu_data_status = "Read"], m.ppu_data)
    ELSE R(Panic(m, "not implemented"), 0)

\* a latch that keeps the high byte once the address is complete
cpu_write_ppuaddr_sticky(m, data) ==
    IF m.ppu_addr_higher = None
    THEN [m EXCEPT !.ppu_addr_higher = Some(data)]
    ELSE [m EXCEPT !.ppu_addr = Some(Unwrap(m.ppu_addr_higher) * 256 + data)]

\* the PPUADDR arm of PpuRegisterBus::cpu_write
cpu_write_ppuaddr(m, data) ==
    IF m.ppu_addr_higher = None
    THEN [m EXCEPT !.ppu_addr_higher = Some(data)]
    ELSE [m EXCEPT !.ppu_addr = Some(Unwrap(m.ppu_addr_higher) * 256 + data),
                   !.ppu_addr_higher = None]

\* a write of PPUDATA that stores the byte and leaves the status alone
cpu_write_ppudata_unmarked(m, data) == [m EXCEPT !.ppu_data = data]


\* the PPUDATA arm of PpuRegisterBus::cpu_write
cpu_write_ppudata(m, data) ==
    [m EXCEPT !.ppu_data = data, !.ppu_data_status = "Written"]

\* PpuRegisterBus::cpu_write
cpu_write(m, addr, data) ==
    LET r == RegisterFrom(addr) IN
    IF ~Ok(m) THEN m
    ELSE IF r = "PPUADDR" THEN cpu_write_ppuaddr(m, data)
    ELSE IF r = "PPUDATA" THEN cpu_write_ppudata(m, data)
    ELSE Panic(m, "not implemented")

\* a read from the PPU side that leaves what it returns in place
ppu_read_peek(m, r) ==
    IF ~Ok(m) THEN R(m, None)
    ELSE IF r = "PPUADDR" THEN R(m, m.ppu_addr)
    ELSE IF r = "PPUDATA" THEN R(m, Some(m.ppu_data))
    ELSE R(m, None)


\* PpuRegisterBus::ppu_read; it returns an Option<u16>
ppu_read(m, r) ==
    IF ~Ok(m) THEN R(m, None)
    ELSE IF r = "PPUADDR" THEN R([m EXCEPT !.ppu_addr = None], m.ppu_addr)
    ELSE IF r = "PPUDATA" THEN R([m EXCEPT !.ppu_data_status = "None"], Some(m.ppu_data))
    ELSE R(m, None)

\* PpuRegisterBus::ppu_write
ppu_write(m, r, data) ==
    IF ~Ok(m) THEN m
    ELSE IF r = "PPUDATA" THEN [m EXCEPT !.ppu_data = data, !.ppu_data_status = "None"]
    ELSE Panic(m, "Forbidden to write data from PPU")


-----------------------------------------------------------------------------
(* The CPU's bus (cpu.rs:107-139) and the program image (nes.rs:35-37) *)

\* Nes::read_program: prg_rom is a Vec, an index past its end panics
read_program(m, addr) ==
    IF ~Ok(m) THEN R(m, 0)
    ELSE IF addr < m.prg_rom.len THEN R(m, Get(m.prg_rom.data, addr))
    ELSE R(Panic(m, "index out of bounds: prg_rom"), 0)

\* Cpu::read_ram: ram is an array of RAM_SIZE bytes
read_ram(m, addr) ==
    IF ~Ok(m) THEN R(m, 0)
    ELSE IF addr < RAM_SIZE THEN R(m, Get(m.ram, addr))
    ELSE R(Panic(m, "index out of bounds: ram"), 0)

\* Cpu::write_ram
write_ram(m, addr, data) ==
    IF ~Ok(m) THEN m
    ELSE IF addr < RAM_SIZE THEN [m EXCEPT !.ram = Set(@, addr, data)]
    ELSE Panic(m, "index out of bounds: ram")

\* Cpu::read
read(m, addr) ==
    CASE addr \in \h0000 .. \h07FF -> read_ram(m, addr)
      [] addr \in \h0800 .. \h0FFF -> read_ram(m, addr - \h0800)
      [] addr \in \h1000 .. \h17FF -> read_ram(m, addr - \h1000)
      [] addr \in \h1800 .. \h1FFF -> read_ram(m, addr - \h1800)
      [] addr \in \h2000 .. \h2007 -> cpu_read(m, addr)
      [] addr \in \h2008 .. \h401F -> R(m, 0)
      [] addr \in \h4020 .. \h7FFF -> R(m, 0)
      [] addr \in PRG_ROM_BASE .. \hFFFF -> read_program(m, addr - PRG_ROM_BASE)

\* a bus whose mirrors of RAM drop what is written to them
write_unmirrored(m, addr, data) ==
    IF addr < RAM_SIZE THEN write_ram(m, addr, data) ELSE m

\* a bus that drops what is written to the cartridge
write_rom_ignored(m, addr, data) ==
    CASE addr \in \h0000 .. \h1FFF -> write_ram(m, addr % RAM_SIZE, data)
      [] addr \in \h2000 .. \h2007 -> cpu_write(m, addr, data)
      [] addr \in \h2008 .. \hFFFF -> m


\* Cpu::write
write(m, addr, data) ==
    CASE addr \in \h0000 .. \h07FF -> write_ram(m, addr, data)
      [] addr \in \h0800 .. \h0FFF -> write_ram(m, addr - \h0800, data)
      [] addr \in \h1000 .. \h17FF -> write_ram(m, addr - \h1000, data)
      [] addr \in \h1800 .. \h1FFF -> write_ram(m, addr - \h1800, data)
      [] addr \in \h2000 .. \h2007 -> cpu_write(m, addr, data)
      [] addr \in \h2008 .. \h401F -> m
      [] addr \in \h4020 .. \hFFFF -> Panic(m, "Cartridge space is read only")

\* Cpu::read_flag
read_flag(m, f) == Bit(m.status, f)

\* Cpu::write_flag
write_flag(m, f, v) ==
    IF ~Ok(m) THEN m
    ELSE IF v THEN [m EXCEPT !.status = IF Bit(@, f) THEN @ ELSE @ + f]
    ELSE [m EXCEPT !.status = IF Bit(@, f) THEN @ - f ELSE @]

-----------------------------------------------------------------------------
(* Stack (cpu.rs:155-168) *)

\* Cpu::push_byte
push_byte(m, data) ==
    LET w == write_ram(m, m.s, data) IN
    IF ~Ok(w) THEN w ELSE [w EXCEPT !.s = (@ + Word - 1) % Word]

\* Cpu::push_word
push_word(m, data) == push_byte(push_byte(m, data \div 256), data % 256)

\* Cpu::pop: `self.s += 1` overflows at 0xFFFF; then the cell at s - 1 is read
pop(m) ==
    IF ~Ok(m) THEN R(m, 0)
    ELSE IF m.s + 1 >= Word /\ m.overflow_checks
    THEN R(Panic(m, "attempt to add with overflow"), 0)
    ELSE LET m1 == [m EXCEPT !.s = (@ + 1) % Word] IN
         read_ram(m1, (m1.s + Word - 1) % Word)

-----------------------------------------------------------------------------
(* Operand fetch (cpu.rs:170-229).  A function that goes on with the result *)
(* of a call is split at the call: the operator that goes on takes the      *)
(* result as its parameter.                                                *)

\* Cpu::fetch_byte: `self.pc += 1`, then the byte at the old pc
fetch_byte(m) ==
    IF ~Ok(m) THEN R(m, 0)
    ELSE IF m.pc + 1 >= Word /\ m.overflow_checks
    THEN R(Panic(m, "attempt to add with overflow"), 0)
    ELSE read([m EXCEPT !.pc = (@ + 1) % Word], m.pc)

\* fetch_word: h << 8 | l
fetch_word_join(l, h) == R(h.m, h.v * 256 + l.v)

\* a high byte that is read where pc stands, pc left there
fetch_word_high_peek(l) == fetch_word_join(l, read(l.m, l.m.pc))


\* fetch_word after its low byte l
fetch_word_high(l) == fetch_word_join(l, fetch_byte(l.m))

\* Cpu::fetch_word
fetch_word(m) == fetch_word_high(fetch_byte(m))

\* the pair (address, data) of fetch_addressed_data, with the machine
RA(m, addr, data) == [m |-> m, addr |-> addr, data |-> data]

\* (None, fetched byte)
Operand(f) == RA(f.m, None, f.v)

\* (Some(addr), the byte read at addr)
Addressed(r, addr) == RA(r.m, Some(addr), r.v)

\* (Some(addr), self.read(nes, addr)) for addr = fetched + index
OperandAt(f, index) == Addressed(read(f.m, (f.v + index) % Word), (f.v + index) % Word)

\* Cpu::fetch_addressed_data
fetch_addressed_data(m, mode) ==
    CASE mode = "Implied" -> RA(m, None, 0)
      [] mode = "Accumulator" -> RA(m, None, m.a)
      [] mode = "Immediate" -> Operand(fetch_byte(m))
      [] mode = "ZeroPage" -> OperandAt(fetch_byte(m), 0)
      [] mode = "ZeroPageX" -> OperandAt(fetch_byte(m), m.x)
      [] mode = "Absolute" -> OperandAt(fetch_word(m), 0)
      [] mode = "AbsoluteX" -> OperandAt(fetch_word(m), m.x)
      [] mode = "UNKNOWN" -> RA(Panic(m, "Unknown addressing mode"), None, 0)
      [] OTHER -> RA(Panic(m, "not implemented"), None, 0)

\* a branch that never pays for the page it crosses
branch_taken_flat(f, condition) ==
    IF ~Ok(f.m) THEN R(f.m, 0)
    ELSE IF condition
    THEN R([f.m EXCEPT !.pc = (f.m.pc + AsI8(f.v) + Word) % Word], 1)
    ELSE R(f.m, 0)

\* branch_relative after the offset byte f
branch_taken(f, condition) ==
    LET prev_pc == f.m.pc
        target == (prev_pc + AsI8(f.v) + Word) % Word
    IN  IF ~Ok(f.m) THEN R(f.m, 0)
        ELSE IF condition
        THEN R([f.m EXCEPT !.pc = target],
               IF target \div 256 = prev_pc \div 256 THEN 1 ELSE 2)
        ELSE R(f.m, 0)

\* Cpu::branch_relative
branch_relative(m, condition) == branch_taken(fetch_byte(m), condition)

-----------------------------------------------------------------------------
(* Instruction handlers (cpu.rs:272-553): each returns the additional cycles *)

\* is_negative
is_negative(v) == Bit(v, 128)

\* is_carried
is_carried(v1, v2) == Bit(v1 + v2, 256)

OrBit(p, q, b) == IF Bit(p, b) \/ Bit(q, b) THEN b ELSE 0

\* u8 | u8
BitOr(p, q) ==
    OrBit(p, q, 1) + OrBit(p, q, 2) + OrBit(p, q, 4) + OrBit(p, q, 8)
    + OrBit(p, q, 16) + OrBit(p, q, 32) + OrBit(p, q, 64) + OrBit(p, q, 128)

\* write_flag(Zero, zero); write_flag(Negative, negative)
write_zn(m, zero, negative) ==
    write_flag(write_flag(m, Zero, zero), Negative, negative)

\* Cpu::instruction_clear_flag
instruction_clear_flag(m, flag) == R(write_flag(m, flag, FALSE), 0)

\* a shift that takes Carry from the result
asl_shift_late_carry(f) ==
    LET next == (f.data * 2) % Byte
        m1 == write_flag(f.m, Carry, Bit(next, 128))
        m2 == write_flag(m1, Zero, f.m.a = 0)
        m3 == write_flag(m2, Negative, is_negative(next))
    IN  IF ~Ok(f.m) THEN R(f.m, 0)
        ELSE IF f.addr # None THEN R(write(m3, Unwrap(f.addr), next), 0)
        ELSE R([m3 EXCEPT !.a = next], 0)

\* instruction_asl after fetch_addressed_data
asl_shift(f) ==
    LET next == (f.data * 2) % Byte
        m1 == write_flag(f.m, Carry, Bit(f.data, 128))
        m2 == write_flag(m1, Zero, f.m.a = 0)
        m3 == write_flag(m2, Negative, is_negative(next))
    IN  IF ~Ok(f.m) THEN R(f.m, 0)
        ELSE IF f.addr # None THEN R(write(m3, Unwrap(f.addr), next), 0)
        ELSE R([m3 EXCEPT !.a = next], 0)

\* Cpu::instruction_asl
instruction_asl(m, mode) == asl_shift(fetch_addressed_data(m, mode))

\* Cpu::instruction_bmi
instruction_bmi(m, mode) ==
    IF mode # "Relative" THEN R(Panic(m, "Invalid BMI addressing mode"), 0)
    ELSE branch_relative(m, read_flag(m, Negative))

\* Cpu::instruction_bne
instruction_bne(m, mode) ==
    IF mode # "Relative" THEN R(Panic(m, "Unknown BNE addressing mode"), 0)
    ELSE branch_relative(m, ~read_flag(m, Zero))

\* Cpu::instruction_bpl
instruction_bpl(m, mode) ==
    IF mode # "Relative" THEN R(Panic(m, "Invalid BPL addressing mode"), 0)
    ELSE branch_relative(m, ~read_flag(m, Negative))

\* Cpu::instruction_brk
instruction_brk(m, mode) ==
    IF mode # "Implied" THEN R(Panic(m, "Unknown BRK addressing mode"), 0)
    ELSE R(write_flag([m EXCEPT !.cpu_interruption = "BRK"], Break, TRUE), 0)

\* instruction_bvc after the offset byte f
bvc_branch(f) ==
    LET addr == (f.m.pc + AsI8(f.v) + Word) % Word
        crossed == IF addr \div 256 # f.m.pc \div 256 THEN 1 ELSE 0
    IN  IF ~Ok(f.m) THEN R(f.m, 0)
        ELSE IF ~read_flag(f.m, Overflow)
        THEN R([f.m EXCEPT !.pc = addr], crossed + 1)
        ELSE R(f.m, 0)

\* Cpu::instruction_bvc
instruction_bvc(m, mode) ==
    IF mode # "Relative" THEN R(Panic(m, "Unknown BVC addressing mode"), 0)
    ELSE bvc_branch(fetch_byte(m))

\* a decrement that stops at zero
dec_write_saturating(val, addr) ==
    LET data == IF val.v = 0 THEN 0 ELSE val.v - 1
    IN  R(write_zn(write(val.m, addr, data), data = 0, is_negative(data)), 0)

\* instruction_dec after the read of the cell: decrement, write back, flags
dec_write(val, addr) ==
    LET data == (val.v + 255) % Byte
    IN  R(write_zn(write(val.m, addr, data), data = 0, is_negative(data)), 0)

\* instruction_dec after the operand byte f: the cell at f.wrapping_add(index)
dec_at(f, index) == dec_write(read(f.m, (f.v + index) % Byte), (f.v + index) % Byte)

\* Cpu::instruction_dec
instruction_dec(m, mode) ==
    CASE mode = "ZeroPage" -> dec_at(fetch_byte(m), 0)
      [] mode = "ZeroPageX" -> dec_at(fetch_byte(m), m.x)
      [] OTHER -> R(Panic(m, "Unknown DEC addressing mode"), 0)

\* Cpu::instruction_dey
instruction_dey(m, mode) ==
    LET v == (m.y + 255) % Byte
    IN  R(write_zn([m EXCEPT !.y = v], v = 0, is_negative(v)), 0)

\* Cpu::instruction_inx
instruction_inx(m, mode) ==
    LET v == (m.x + 1) % Byte
    IN  R(write_zn([m EXCEPT !.x = v], v = 0, is_negative(v)), 0)

\* instruction_isc, the SBC half, after the write of the incremented value
isc_sbc(w, incremented_val) ==
    LET c == IF read_flag(w, Carry) THEN 0 ELSE 1
        next_val == (w.a + Byte - incremented_val) % Byte
        overflowed1 == w.a < incremented_val
        result == (next_val + Byte - c) % Byte
        overflowed2 == next_val < c
        m1 == write_flag(w, Carry,
                ~(is_carried(w.a, incremented_val) \/ is_carried(next_val, c)))
        m2 == write_flag(m1, Zero, result = 0)
        m3 == write_flag(m2, Overflow, overflowed1 \/ overflowed2)
        m4 == write_flag(m3, Negative, is_negative(result))
    IN  IF ~Ok(w) THEN R(w, 0) ELSE R([m4 EXCEPT !.a = result], 0)

\* instruction_isc, the INC half, after the read of the cell
isc_inc(rd, addr) == isc_sbc(write(rd.m, addr, (rd.v + 1) % Byte), (rd.v + 1) % Byte)

\* instruction_isc after the operand word f: `fetch_word + x` overflows past 0xFFFF
isc_at(f, index) ==
    IF ~Ok(f.m) THEN R(f.m, 0)
    ELSE IF f.v + index >= Word /\ f.m.overflow_checks
    THEN R(Panic(f.m, "attempt to add with overflow"), 0)
    ELSE isc_inc(read(f.m, (f.v + index) % Word), (f.v + index) % Word)

\* Cpu::instruction_isc
instruction_isc(m, mode) ==
    IF mode # "AbsoluteX" THEN R(Panic(m, "Unknown ISC addressing mode"), 0)
    ELSE isc_at(fetch_word(m), m.x)

\* instruction_jmp after the operand word
jmp_to(f) == IF ~Ok(f.m) THEN R(f.m, 0) ELSE R([f.m EXCEPT !.pc = f.v], 0)

\* Cpu::instruction_jmp
instruction_jmp(m, mode) == jmp_to(fetch_word(m))

\* instruction_jsr after push_word
jsr_jump(p, addr) == IF ~Ok(p) THEN R(p, 0) ELSE R([p EXCEPT !.pc = addr], 0)

\* a JSR that pushes the address of its own last byte
jsr_push_last_byte(f) == jsr_jump(push_word(f.m, (f.m.pc + Word - 1) % Word), f.v)

\* instruction_jsr after the operand word
jsr_push(f) == jsr_jump(push_word(f.m, f.m.pc), f.v)

\* Cpu::instruction_jsr
instruction_jsr(m, mode) == jsr_push(fetch_word(m))

\* Cpu::instruction_kil
instruction_kil(m, mode) ==
    IF mode # "Implied" THEN R(Panic(m, "Invalid KIL addressing mode"), 0)
    ELSE R(m, 0)

\* a load that leaves Zero as it was
lda_load_keeps_zero(o, additional_cycle) ==
    IF ~Ok(o.m) THEN R(o.m, 0)
    ELSE R(write_flag([o.m EXCEPT !.a = o.v], Negative, is_negative(o.v)),
           additional_cycle)

\* instruction_lda after the operand o
lda_load(o, additional_cycle) ==
    IF ~Ok(o.m) THEN R(o.m, 0)
    ELSE R(write_zn([o.m EXCEPT !.a = o.v], o.v = 0, is_negative(o.v)),
           additional_cycle)

\* no page is ever crossed
page_never_crossed(word, index) == 0

\* the page of the operand word differs from the page of the indexed address
page_crossed(word, index) ==
    IF word \div 256 # ((word + index) % Word) \div 256 THEN 1 ELSE 0

\* instruction_lda after the operand word f, indexed by 0 (Absolute) or x
lda_at(f, index) == lda_load(read(f.m, (f.v + index) % Word), page_crossed(f.v, index))

\* Cpu::instruction_lda
instruction_lda(m, mode) ==
    CASE mode = "Immediate" -> lda_load(fetch_byte(m), 0)
      [] mode = "Absolute" -> lda_at(fetch_word(m), 0)
      [] mode = "AbsoluteX" -> lda_at(fetch_word(m), m.x)
      [] OTHER -> R(Panic(m, "Unknown LDA addressing mode"), 0)

\* instruction_ldx after the operand byte
ldx_load(f) ==
    IF ~Ok(f.m) THEN R(f.m, 0)
    ELSE R(write_zn([f.m EXCEPT !.x = f.v], f.v = 0, is_negative(f.v)), 0)

\* Cpu::instruction_ldx
instruction_ldx(m, mode) ==
    IF mode # "Immediate" THEN R(Panic(m, "Unknown addressing mode"), 0)
    ELSE ldx_load(fetch_byte(m))

\* instruction_ldy after the operand byte
ldy_load(f) ==
    IF ~Ok(f.m) THEN R(f.m, 0)
    ELSE R(write_zn([f.m EXCEPT !.y = f.v], f.v = 0, is_negative(f.v)), 0)

\* Cpu::instruction_ldy
instruction_ldy(m, mode) ==
    IF mode # "Immediate" THEN R(Panic(m, "Unknown addressing mode"), 0)
    ELSE ldy_load(fetch_byte(m))

\* a page test that indexes the effective address by X once more
nop_cycle_forward(f, mode) ==
    IF mode = "AbsoluteX" /\ f.addr # None
       /\ Unwrap(f.addr) \div 256 # ((Unwrap(f.addr) + f.m.x) % Word) \div 256
    THEN R(f.m, 1)
    ELSE R(f.m, 0)

\* instruction_nop after fetch_addressed_data
nop_cycle(f, mode) ==
    IF mode = "AbsoluteX" /\ f.addr # None
       /\ Unwrap(f.addr) \div 256 # ((Unwrap(f.addr) + Word - f.m.x) % Word) \div 256
    THEN R(f.m, 1)
    ELSE R(f.m, 0)

\* Cpu::instruction_nop
instruction_nop(m, mode) == nop_cycle(fetch_addressed_data(m, mode), mode)

\* an SEI that also clears Decimal
instruction_sei_cld(m, mode) ==
    R(write_flag(write_flag(m, InterruptDisable, TRUE), Decimal, FALSE), 0)

\* Cpu::instruction_sei
instruction_sei(m, mode) == R(write_flag(m, InterruptDisable, TRUE), 0)

\* instruction_slo, ASL and ORA, after the read of the data byte
slo_shift(rd) ==
    LET val == (rd.v * 2) % Byte
        m1 == write_flag(rd.m, Carry, Bit(rd.v, 128))
        acc == BitOr(val, rd.m.a)
    IN  IF ~Ok(rd.m) THEN R(rd.m, 0)
        ELSE R(write_zn([m1 EXCEPT !.a = acc], acc = 0, is_negative(acc)), 0)

\* instruction_slo after the two bytes of the pointer
slo_data(l, h) == slo_shift(read(h.m, l.v + h.v * 256))

\* instruction_slo after the low byte of the pointer
slo_high(l, ptr) == slo_data(l, read(l.m, ptr + 1))

\* instruction_slo after the operand byte f: `fetch_byte + x` is a u8 sum
slo_pointer(f, index) ==
    IF ~Ok(f.m) THEN R(f.m, 0)
    ELSE IF f.v + index >= Byte /\ f.m.overflow_checks
    THEN R(Panic(f.m, "attempt to add with overflow"), 0)
    ELSE slo_high(read(f.m, (f.v + index) % Byte), (f.v + index) % Byte)

\* Cpu::instruction_slo
instruction_slo(m, mode) ==
    IF mode # "IndexedIndirect" THEN R(Panic(m, "Unknown SLO addressing mode"), 0)
    ELSE slo_pointer(fetch_byte(m), m.x)

\* instruction_sta after the operand word
sta_store(f) == R(write(f.m, f.v, f.m.a), 0)

\* Cpu::instruction_sta
instruction_sta(m, mode) ==
    IF mode # "Absolute" THEN R(Panic(m, "Unknown addressing mode"), 0)
    ELSE sta_store(fetch_word(m))

\* Cpu::instruction_txs
instruction_txs(m, mode) == R([m EXCEPT !.s = m.x], 0)

\* the opcodes execute_instruction's match has an arm for
Handled ==
    {"ASL", "BMI", "BNE", "BPL", "BRK", "BVC", "CLC", "CLD", "CLI", "CLV", "DEC",
     "DEY", "INX", "ISC", "JMP", "JSR", "LDA", "LDX", "LDY", "NOP", "SEI", "STA",
     "TXS", "KIL", "SLO"}

\* a `_` arm that skips the opcode
instruction_unknown_skip(m) == R(m, 0)


\* the `_` arm of execute_instruction: dump, panic
instruction_unknown(m) == R(Panic(m, "unknown opcode"), 0)

\* `cycle + additional_cycle`, the value execute_instruction returns
total_cycle(cycle, d) == IF Ok(d.m) THEN cycle + d.v ELSE 0

\* a jump that takes the vector's bytes in the other order
brk_jump_swapped(hi, lo) ==
    IF ~Ok(lo.m) THEN lo.m
    ELSE [lo.m EXCEPT !.pc = lo.v * 256 + hi.v, !.cpu_interruption = "None"]


\* Cpu::interrupt, BRK: the jump through the vector
brk_jump(hi, lo) ==
    IF ~Ok(lo.m) THEN lo.m
    ELSE [lo.m EXCEPT !.pc = hi.v * 256 + lo.v, !.cpu_interruption = "None"]

brk_low(hi) == brk_jump(hi, read(hi.m, \hFFFE))

\* Cpu::interrupt, BRK: after the pushes
brk_vector(p) ==
    IF ~Ok(p) THEN p
    ELSE brk_low(read([p EXCEPT !.status = BitOr(@, InterruptDisable)], \hFFFF))

\* Cpu::interrupt, BRK: it returns before the interruption is cleared when
\* InterruptDisable is set
interrupt_brk(m) ==
    IF read_flag(m, InterruptDisable) THEN m
    ELSE brk_vector(push_byte(push_word(m, m.pc), m.status))

\* Cpu::interrupt
interrupt(m) ==
    IF ~Ok(m) THEN m
    ELSE IF m.cpu_interruption = "BRK" THEN interrupt_brk(m)
    ELSE [m EXCEPT !.cpu_interruption = "None"]

-----------------------------------------------------------------------------
(* Memory (memory.rs:26-65) and the PPU core that works on it               *)
(* (ppu.rs:70-223).  m.memory is the Memory, m.ppu the Ppu.                 *)

\* Memory::write: a write to PPUADDR leaves the address state Lower whatever
\* it was
Memory_write(m, addr, data) ==
    IF ~Ok(m) THEN m
    ELSE IF addr >= Word THEN Panic(m, "index out of bounds: data")
    ELSE [m EXCEPT !.memory.data = Set(@, addr, data),
                   !.memory.ppu_addr_state =
                       IF addr # \h2006 THEN @
                       ELSE CASE @ = "Higher" -> "Lower"
                              [] @ \in {"None", "Lower"} -> "Lower",
                   !.memory.ppu_data_state = IF addr = \h2007 THEN "Written" ELSE @]

\* Memory::read
Memory_read(m, addr) ==
    IF ~Ok(m) THEN R(m, 0)
    ELSE IF addr >= Word THEN R(Panic(m, "index out of bounds: data"), 0)
    ELSE R([m EXCEPT !.memory.ppu_data_state = IF addr = \h2007 THEN "Read" ELSE @],
           Get(m.memory.data, addr))

\* Ppu::read_register, Ppu::write_register
read_register(m, r) == Memory_read(m, RegisterAddr(r))
write_register(m, r, data) == Memory_write(m, RegisterAddr(r), data)

\* Ppu::init with an empty character ROM
Ppu_init(m) ==
    write_register(
      write_register(
        write_register(
          write_register(
            write_register(
              write_register(
                write_register(m, "PPUCTRL", \h00),
                "PPUMASK", \h00),
              "PPUSTATUS", \hA0),
            "OAMADDR", \h00),
          "PPUSCROLL", \h00),
        "PPUADDR", \h00),
      "PPUDATA", \h00)

\* Ppu::read_vram: vram is an array of VRAM_SIZE bytes
read_vram(m, addr) ==
    IF ~Ok(m) THEN R(m, 0)
    ELSE IF addr < VRAM_SIZE THEN R(m, Get(m.ppu.vram, addr))
    ELSE R(Panic(m, "index out of bounds: vram"), 0)

\* Ppu::write_vram
write_vram(m, addr, data) ==
    IF ~Ok(m) THEN m
    ELSE IF addr < VRAM_SIZE THEN [m EXCEPT !.ppu.vram = Set(@, addr, data)]
    ELSE Panic(m, "index out of bounds: vram")

\* Ppu::read; character_rom is all zero
Ppu_read(m, addr) ==
    IF ~Ok(m) THEN R(m, 0)
    ELSE CASE addr \in \h0000 .. \h1FFF -> R(m, 0)
           [] addr \in \h2000 .. \h3EFF -> read_vram(m, addr)
           [] OTHER -> R(Panic(m, "Out of PPU's addressing range"), 0)

\* Ppu::write
Ppu_write(m, addr, data) ==
    IF ~Ok(m) THEN m
    ELSE CASE addr \in \h0000 .. \h1FFF -> Panic(m, "Write access is forbidden")
           [] addr \in \h2000 .. \h3EFF -> write_vram(m, addr, data)
           [] OTHER -> Panic(m, "Out of PPU's addressing range")

\* increment_ppu_address after the read of PPUADDR: `lower_addr + 1` is u8
increment_write(lower) ==
    IF ~Ok(lower.m) THEN lower.m
    ELSE IF lower.v = \hFF /\ lower.m.overflow_checks
    THEN Panic(lower.m, "attempt to add with overflow")
    ELSE write_register(lower.m, "PPUADDR", (lower.v + 1) % Byte)

\* Ppu::increment_ppu_address
increment_ppu_address(m) == increment_write(read_register(m, "PPUADDR"))

\* p | q on u16
BitOr16(p, q) == BitOr(p \div 256, q \div 256) * 256 + BitOr(p % 256, q % 256)

\* operate_vram, first match, after the read of PPUADDR; shift is 256 for the
\* high byte and 1 for the low one
address_or(reg, shift) ==
    IF ~Ok(reg.m) THEN reg.m
    ELSE [reg.m EXCEPT !.ppu.ppu_addr = BitOr16(@, (reg.v * shift) % Word)]

\* operate_vram, first match
operate_address(m) ==
    CASE m.memory.ppu_addr_state = "Higher" -> address_or(read_register(m, "PPUADDR"), 256)
      [] m.memory.ppu_addr_state = "Lower" -> address_or(read_register(m, "PPUADDR"), 1)
      [] m.memory.ppu_addr_state = "None" -> m

\* operate_vram, Read: the byte read goes to PPUDATA, the address moves on
operate_read(data) ==
    increment_ppu_address(write_register(data.m, "PPUDATA", data.v))

\* operate_vram, Written: PPUDATA (read through Memory::read) goes to the
\* address, the address moves on
operate_written(reg) ==
    increment_ppu_address(Ppu_write(reg.m, reg.m.ppu.ppu_addr, reg.v))

\* operate_vram, second match
operate_data(m) ==
    IF ~Ok(m) THEN m
    ELSE CASE m.memory.ppu_data_state = "Read" -> operate_read(Ppu_read(m, m.ppu.ppu_addr))
           [] m.memory.ppu_data_state = "Written" -> operate_written(read_register(m, "PPUDATA"))
           [] m.memory.ppu_data_state = "None" -> m

\* Ppu::operate_vram
operate_vram(m) == operate_data(operate_address(m))

\* render_batch_lines: one read per batch, then `batch_counter += 1`
render_batch(sprite) ==
    IF ~Ok(sprite.m) THEN sprite.m
    ELSE [sprite.m EXCEPT !.ppu.batch_counter = @ + 1]

\* Ppu::render
render(m) ==
    IF ~Ok(m) THEN m
    ELSE IF m.ppu.batch_counter >= RENDERING_BATCH_NUM THEN m
    ELSE IF m.ppu.cycle_counter
              < CYCLES_PER_SCANLINE * RENDERING_BATCH_LINES * (m.ppu.batch_counter + 1)
    THEN m
    ELSE render_batch(Ppu_read(m, \h2000 + m.ppu.batch_counter))

\* Ppu::step, the end of the frame
frame_end(m) ==
    IF ~Ok(m) THEN m
    ELSE IF m.ppu.cycle_counter >= CYCLES_PER_FRAME
    THEN [m EXCEPT !.ppu.cycle_counter = @ - CYCLES_PER_FRAME, !.ppu.batch_counter = 0]
    ELSE m

\* a step that counts CPU cycles as PPU cycles
step_cpu_cycles(m, cpu_cycle) ==
    frame_end(render(operate_vram([m EXCEPT !.ppu.cycle_counter = @ + cpu_cycle])))


\* Ppu::step
step(m, cpu_cycle) ==
    frame_end(render(operate_vram([m EXCEPT !.ppu.cycle_counter = @ + cpu_cycle * 3])))

-----------------------------------------------------------------------------
(* The machine as one record, and back *)

Machine ==
    [a |-> a, x |-> x, y |-> y, pc |-> pc, s |-> s, status |-> status, ram |-> ram,
     prg_rom |-> prg_rom, cpu_interruption |-> cpu_interruption,
     ppu_addr_higher |-> ppu_addr_higher, ppu_addr |-> ppu_addr,
     ppu_data |-> ppu_data, ppu_data_status |-> ppu_data_status,
     panic |-> panic, overflow_checks |-> overflow_checks,
     memory |-> memory, ppu |-> ppu]

Commit(m) ==
    /\ a' = m.a /\ x' = m.x /\ y' = m.y /\ pc' = m.pc /\ s' = m.s
    /\ status' = m.status /\ ram' = m.ram
    /\ prg_rom' = m.prg_rom /\ cpu_interruption' = m.cpu_interruption
    /\ ppu_addr_higher' = m.ppu_addr_higher /\ ppu_addr' = m.ppu_addr
    /\ ppu_data' = m.ppu_data /\ ppu_data_status' = m.ppu_data_status
    /\ panic' = m.panic /\ overflow_checks' = m.overflow_checks
    /\ memory' = m.memory /\ ppu' = m.ppu

-----------------------------------------------------------------------------
(* Inputs: a cartridge whose program ROM starts with one instruction and is *)
(* zero after it (Nes::new_for_test, nes.rs:22-33), registers and RAM as a  *)
(* test sets them before it runs the instruction (cpu.rs:564-577).          *)

\* ticks of the driver loop in one run
MaxTicks == 2

ImmediateBytes == {\h00, \h03, \h7F, \h80, \hFF}
RelativeBytes == {\h00, \h03, \h7F, \h80, \hFD}
ZeroPageBytes == {\h00, \h10, \hFF}
\* operand words <<low, high>>: RAM at a page end, RAM, ROM, past the 16 KiB of ROM
WordOperands == {<<\hFF, \h01>>, <<\h10, \h01>>, <<\h09, \h90>>, <<\h00, \hC0>>}
XValues == {\h00, \h01, \hFF}
AYValues == {<<\h00, \h01>>, <<\h80, \h00>>}
StatusValues == {\h34, \hCB}
Fills == {\h00, \h70, \hF0}

UnknownBytes == {\h01, \hEA}
\* the bytes that have an arm of their own in Instruction::from
TableBytes ==
    {\h00, \h02, \h03, \h04, \h06, \h0A, \h0C, \h0E, \h10, \h12, \h14, \h16, \h18,
     \h1A, \h1C, \h1E, \h20, \h22, \h30, \h32, \h34, \h3A, \h3C, \h42, \h44, \h4C,
     \h50, \h52, \h54, \h58, \h5A, \h5C, \h62, \h64, \h72, \h74, \h78, \h7A, \h7C,
     \h80, \h82, \h88, \h89, \h8D, \h92, \h9A, \hA0, \hA1, \hA2, \hA5, \hA9, \hAD,
     \hB1, \hB2, \hB5, \hB8, \hB9, \hBD, \hC2, \hC5, \hC6, \hC9, \hD0, \hD1, \hD2,
     \hD4, \hD6, \hD8, \hDA, \hDC, \hE2, \hE8, \hF2, \hF4, \hFA, \hFC, \hFF}

\* TXS, then JSR $9009: the one program of two instructions
StackPrograms == {<<\h9A, \h20, \h09, \h90>>}

\* operand bytes that follow an opcode byte, by the table's addressing mode
OperandBytes(mode) ==
    CASE mode \in {"Implied", "Accumulator", "UNKNOWN"} -> {<<>>}
      [] mode = "Immediate" -> {<<b>> : b \in ImmediateBytes}
      [] mode = "Relative" -> {<<b>> : b \in RelativeBytes}
      [] mode \in {"ZeroPage", "ZeroPageX", "ZeroPageY", "IndexedIndirect",
                   "IndirectIndexed"} -> {<<b>> : b \in ZeroPageBytes}
      [] OTHER -> WordOperands

\* BRK, then CLI
BreakPrograms == {<<\h00, \h58>>}

\* STA $200E, STA $2006, LDA $200F, LDA $2007: PPUADDR, PPUDATA, and the same
\* registers 8 higher
PpuPrograms ==
    {<<\h8D, \h0E, \h20>>, <<\h8D, \h06, \h20>>, <<\hAD, \h0F, \h20>>, <<\hAD, \h07, \h20>>}

Programs ==
    UNION {{<<b>> \o o : o \in OperandBytes(Decode(b)[2])} :
           b \in TableBytes \cup UnknownBytes}
    \cup StackPrograms \cup BreakPrograms \cup PpuPrograms

\* the modes whose instruction reads a memory cell
ReadsMemory(mode) == mode \notin {"Implied", "Accumulator", "UNKNOWN", "Immediate", "Relative"}

\* Cassette.prg_rom of `units` 16 KiB units that starts with the bytes of `prog`
PrgRom(prog, units) ==
    [data |-> [i \in {k - 1 : k \in {j \in 1 .. Len(prog) : prog[j] # 0}} |-> prog[i + 1]],
     len |-> PRG_ROM_UNIT_SIZE * units]

\* Cassette.prg_rom of two units, the whole window: it starts with the bytes of
\* `prog` and ends with the interrupt vector 0x9009 (low byte at 0xFFFE)
PrgRomWithVector(prog) ==
    [data |-> [i \in DOMAIN PrgRom(prog, 2).data \cup {\h7FFE, \h7FFF} |->
                 CASE i = \h7FFE -> \h09
                   [] i = \h7FFF -> \h90
                   [] OTHER -> PrgRom(prog, 2).data[i]],
     len |-> PRG_ROM_UNIT_SIZE * 2]

\* the cartridges `prog` is run from: 16 KiB, and for a program that starts
\* with BRK also 32 KiB
Cartridges(prog) ==
    {PrgRom(prog, 1)} \cup (IF prog[1] = \h00 THEN {PrgRomWithVector(prog)} ELSE {})

\* RAM cells the operands of Programs can address, and the stack cells below 0xFD
DataCells ==
    {\h00, \h01, \h0F, \h10, \h11, \hFF, \h100, \h10F, \h110, \h111,
     \h1FE, \h1FF, \h200, \h20F, \h2FE}

\* RAM in which data cell c holds (c + fill) mod 256
RamImage(fill) ==
    [c \in {d \in DataCells : (d + fill) % Byte # 0} |-> (c + fill) % Byte]

\* [0; RAM_SIZE]
ZeroRam == [c \in {} |-> 0]

\* what no operation has happened yet leaves in `last`
NoOperation == [op |-> "none"]

\* Memory::new
MemoryNew == [data |-> ZeroRam, ppu_addr_state |-> "None", ppu_data_state |-> "None"]

\* Ppu::new; character_rom is all zero and stays so without init's copy
PpuNew == [vram |-> ZeroRam, ppu_addr |-> 0, cycle_counter |-> 0, batch_counter |-> 0]

\* PpuRegisterBus::new, Nes.cpu_interruption, Memory::new, Ppu::new, a
\* process that runs
InitNes ==
    /\ memory = MemoryNew /\ ppu = PpuNew
    /\ cpu_interruption = "None"
    /\ ppu_addr_higher = None /\ ppu_addr = None
    /\ ppu_data = 0 /\ ppu_data_status = "None"
    /\ panic = NoPanic
    /\ overflow_checks \in BOOLEAN

InitCpu ==
    /\ \E prog \in Programs :
       \E fill \in IF ReadsMemory(Decode(prog[1])[2]) THEN Fills ELSE {0} :
          /\ prg_rom \in Cartridges(prog)
          /\ ram = RamImage(fill)
    /\ \E ay \in AYValues : a = ay[1] /\ y = ay[2]
    /\ x \in XValues
    /\ status \in StatusValues
    /\ pc = PRG_ROM_BASE
    /\ s = \hFD
    /\ InitNes
    /\ phase = "execute"
    /\ last = NoOperation
    /\ steps = 0

-----------------------------------------------------------------------------
(* The driver loop: tick = execute_instruction, then interrupt              *)
(* (cpu.rs:68-72).  One action per arm of execute_instruction's match.      *)

\* Instruction::from for every byte
Instructions == [b \in 0 .. 255 |-> Decode(b)]

\* the opcode byte at pc, fetched
Fetched == fetch_byte(Machine)

\* its decoding
Decoded == Instructions[Fetched.v]

CanTick == phase = "execute" /\ panic = NoPanic /\ steps < MaxTicks

\* execute_instruction when the opcode decodes to one of `names` and its arm
\* gives d; `last` records the byte fetched, its decoding, the machine before
\* the instruction and the cycles returned
Exec(names, d) ==
    /\ CanTick
    /\ Ok(Fetched.m)
    /\ Decoded[1][1] \in names
    /\ Commit(d.m)
    /\ last' = [op |-> "execute", byte |-> Fetched.v, instr |-> Decoded,
                pre |-> Machine, cycle |-> total_cycle(Decoded[3], d)]
    /\ phase' = "interrupt"
    /\ steps' = steps

ExecASL == Exec({"ASL"}, instruction_asl(Fetched.m, Decoded[2]))
ExecBMI == Exec({"BMI"}, instruction_bmi(Fetched.m, Decoded[2]))
ExecBNE == Exec({"BNE"}, instruction_bne(Fetched.m, Decoded[2]))
ExecBPL == Exec({"BPL"}, instruction_bpl(Fetched.m, Decoded[2]))
ExecBRK == Exec({"BRK"}, instruction_brk(Fetched.m, Decoded[2]))
ExecBVC == Exec({"BVC"}, instruction_bvc(Fetched.m, Decoded[2]))
ExecCLC == Exec({"CLC"}, instruction_clear_flag(Fetched.m, Carry))
ExecCLD == Exec({"CLD"}, instruction_clear_flag(Fetched.m, Decimal))
ExecCLI == Exec({"CLI"}, instruction_clear_flag(Fetched.m, InterruptDisable))
ExecCLV == Exec({"CLV"}, instruction_clear_flag(Fetched.m, Overflow))
ExecDEC == Exec({"DEC"}, instruction_dec(Fetched.m, Decoded[2]))
ExecDEY == Exec({"DEY"}, instruction_dey(Fetched.m, Decoded[2]))
ExecINX == Exec({"INX"}, instruction_inx(Fetched.m, Decoded[2]))
ExecISC == Exec({"ISC"}, instruction_isc(Fetched.m, Decoded[2]))
ExecJMP == Exec({"JMP"}, instruction_jmp(Fetched.m, Decoded[2]))
ExecJSR == Exec({"JSR"}, instruction_jsr(Fetched.m, Decoded[2]))
ExecLDA == Exec({"LDA"}, instruction_lda(Fetched.m, Decoded[2]))
ExecLDX == Exec({"LDX"}, instruction_ldx(Fetched.m, Decoded[2]))
ExecLDY == Exec({"LDY"}, instruction_ldy(Fetched.m, Decoded[2]))
ExecNOP == Exec({"NOP"}, instruction_nop(Fetched.m, Decoded[2]))
ExecSEI == Exec({"SEI"}, instruction_sei(Fetched.m, Decoded[2]))
ExecSTA == Exec({"STA"}, instruction_sta(Fetched.m, Decoded[2]))
ExecTXS == Exec({"TXS"}, instruction_txs(Fetched.m, Decoded[2]))
ExecKIL == Exec({"KIL"}, instruction_kil(Fetched.m, Decoded[2]))
ExecSLO == Exec({"SLO"}, instruction_slo(Fetched.m, Decoded[2]))

\* the `_` arm: an opcode without a handler
ExecUnhandled == Exec({"CMP", "UNKNOWN"}, instruction_unknown(Fetched.m))

\* the opcode byte itself cannot be fetched
ExecFetchFault ==
    /\ CanTick
    /\ ~Ok(Fetched.m)
    /\ Commit(Fetched.m)
    /\ UNCHANGED <<last, steps>>
    /\ phase' = "interrupt"

\* Cpu::interrupt, the second half of tick
Interrupt ==
    /\ phase = "interrupt"
    /\ panic = NoPanic
    /\ Commit(interrupt(Machine))
    /\ phase' = "execute"
    /\ steps' = steps + 1
    /\ UNCHANGED last

Next ==
    \/ ExecASL \/ ExecBMI \/ ExecBNE \/ ExecBPL \/ ExecBRK \/ ExecBVC
    \/ ExecCLC \/ ExecCLD \/ ExecCLI \/ ExecCLV \/ ExecDEC \/ ExecDEY
    \/ ExecINX \/ ExecISC \/ ExecJMP \/ ExecJSR \/ ExecLDA \/ ExecLDX
    \/ ExecLDY \/ ExecNOP \/ ExecSEI \/ ExecSTA \/ ExecTXS \/ ExecKIL
    \/ ExecSLO \/ ExecUnhandled \/ ExecFetchFault \/ Interrupt

Spec == InitCpu /\ [][Next]_vars

-----------------------------------------------------------------------------
(* The decoder on its own: Instruction::from applied to any byte           *)

\* Cpu::new (cpu.rs:56-66) on a cartridge of one empty 16 KiB unit
InitPowerUp ==
    /\ a = 0 /\ x = 0 /\ y = 0
    /\ pc = PRG_ROM_BASE
    /\ s = \hFD
    /\ status = \h34
    /\ ram = ZeroRam
    /\ prg_rom = PrgRom(<<>>, 1)
    /\ InitNes
    /\ last = NoOperation
    /\ steps = 0

\* the fields of Cpu, Nes and PpuRegisterBus
machine == <<a, x, y, pc, s, status, ram, prg_rom, cpu_interruption,
             ppu_addr_higher, ppu_addr, ppu_data, ppu_data_status,
             panic, overflow_checks, memory, ppu>>

\* decodings in one run
MaxDecodes == 2

InitDecode == InitPowerUp /\ phase = "decode"

\* Instruction::from(b)
DecodeByte ==
    /\ phase = "decode"
    /\ steps < MaxDecodes
    /\ \E b \in 0 .. 255 :
          last' = [op |-> "decode", byte |-> b, instr |-> Decode(b)]
    /\ steps' = steps + 1
    /\ UNCHANGED <<machine, phase>>

NextDecode == DecodeByte

SpecDecode == InitDecode /\ [][NextDecode]_vars

-----------------------------------------------------------------------------
(* The stack on its own: push_word, then pop twice (cpu.rs:155-168)        *)

\* stack pointers with two cells at and below them
StackPointers == {\h01, \h02, \h80, \hFD, \hFF}
StackWords == {\h0000, \h00FF, \h1234, \h8003, \hFFFF}

InitStack ==
    /\ a = 0 /\ x = 0 /\ y = 0
    /\ pc = PRG_ROM_BASE
    /\ s \in StackPointers
    /\ status = \h34
    /\ ram \in {ZeroRam} \cup {RamImage(fill) : fill \in Fills}
    /\ prg_rom = PrgRom(<<>>, 1)
    /\ InitNes
    /\ last = NoOperation
    /\ steps = 0
    /\ phase = "push"

\* push_word(v)
PushWord ==
    /\ phase = "push"
    /\ \E v \in StackWords :
          /\ Commit(push_word(Machine, v))
          /\ last' = [op |-> "push_word", word |-> v, pre |-> Machine, pops |-> <<>>]
    /\ phase' = "pop"
    /\ steps' = steps

\* pop(), at most twice
Pop ==
    /\ phase = "pop"
    /\ panic = NoPanic
    /\ steps < 2
    /\ Commit(pop(Machine).m)
    /\ last' = [last EXCEPT !.op = "pop", !.pops = Append(@, pop(Machine).v)]
    /\ steps' = steps + 1
    /\ phase' = phase

NextStack == PushWord \/ Pop

SpecStack == InitStack /\ [][NextStack]_vars

-----------------------------------------------------------------------------
(* The CPU's bus on its own: Cpu::write and Cpu::read on the RAM window     *)

\* bus operations in one run
MaxBusOps == 3

BusCells == {\h0000, \h00FD, \h07FF}
Mirrors == 0 .. 3
BusValues == {\h00, \h5A, \hA5}

\* the address of cell c in mirror k
Mirror(c, k) == c + RAM_SIZE * k

InitBus == InitPowerUp /\ phase = "bus"

\* Cpu::write(addr, v)
CpuWrite ==
    /\ phase = "bus"
    /\ panic = NoPanic
    /\ steps < MaxBusOps
    /\ \E c \in BusCells, k \in Mirrors, v \in BusValues :
          /\ Commit(write(Machine, Mirror(c, k), v))
          /\ last' = [op |-> "write", addr |-> Mirror(c, k), data |-> v, pre |-> Machine]
    /\ steps' = steps + 1
    /\ phase' = phase

\* Cpu::read(addr)
CpuRead ==
    /\ phase = "bus"
    /\ panic = NoPanic
    /\ steps < MaxBusOps
    /\ \E c \in BusCells, k \in Mirrors :
          /\ Commit(read(Machine, Mirror(c, k)).m)
          /\ last' = [op |-> "read", addr |-> Mirror(c, k),
                      data |-> read(Machine, Mirror(c, k)).v, pre |-> Machine]
    /\ steps' = steps + 1
    /\ phase' = phase

\* the first and the last address of each range of the two matches
RegionAddresses ==
    {\h0000, \h1FFF, \h2000, \h2007, \h2008, \h401F, \h4020, \h7FFF, \h8000, \hFFFF}

InitRegion == InitPowerUp /\ phase = "region"

\* Cpu::write(addr, 0x5A) at a range boundary
RegionWrite ==
    /\ phase = "region"
    /\ panic = NoPanic
    /\ steps < MaxBusOps
    /\ \E addr \in RegionAddresses :
          /\ Commit(write(Machine, addr, \h5A))
          /\ last' = [op |-> "write", addr |-> addr, data |-> \h5A, pre |-> Machine]
    /\ steps' = steps + 1
    /\ phase' = phase

\* Cpu::read(addr) at a range boundary
RegionRead ==
    /\ phase = "region"
    /\ panic = NoPanic
    /\ steps < MaxBusOps
    /\ \E addr \in RegionAddresses :
          /\ Commit(read(Machine, addr).m)
          /\ last' = [op |-> "read", addr |-> addr,
                      data |-> read(Machine, addr).v, pre |-> Machine]
    /\ steps' = steps + 1
    /\ phase' = phase

NextRegion == RegionWrite \/ RegionRead

SpecRegion == InitRegion /\ [][NextRegion]_vars


NextBus == CpuWrite \/ CpuRead

SpecBus == InitBus /\ [][NextBus]_vars

-----------------------------------------------------------------------------
(* The register bus on its own, as the CPU drives it                       *)
(* (ppu_register_bus.rs:26-66)                                             *)

\* register-bus operations in one run
MaxRegOps == 4

RegBytes == {\h00, \h21, \h3F}

InitRegBus ==
    /\ a = 0 /\ x = 0 /\ y = 0
    /\ pc = PRG_ROM_BASE
    /\ s = \hFD
    /\ status = \h34
    /\ ram = ZeroRam
    /\ prg_rom = PrgRom(<<>>, 1)
    /\ InitNes
    /\ last = [op |-> "none", addr_writes |-> 0, addr_bytes |-> <<>>,
               addr_reads |-> 0, data_accesses |-> 0]
    /\ steps = 0
    /\ phase = "regbus"

\* the operations of the CPU on PPUDATA, and those of the PPU
CpuDataOps == {"cpu_write PPUDATA", "cpu_read PPUDATA", "write 0x2007"}
PpuDataOps == {"ppu_read PPUDATA", "ppu_write PPUDATA"}

\* operation `op` with byte b took the register bus from Machine to m;
\* addr_writes counts the cpu_write(PPUADDR, _) calls so far and addr_bytes
\* lists their bytes, addr_reads counts the ppu_read(PPUADDR) calls since the
\* last write that completed an address, data_accesses the operations of the
\* CPU on PPUDATA since the last one of the PPU
RegOp(op, b, m, addr_write) ==
    /\ phase = "regbus"
    /\ panic = NoPanic
    /\ steps < MaxRegOps
    /\ Commit(m)
    /\ last' = [op |-> op, data |-> b, pre |-> Machine,
                addr_writes |-> last.addr_writes + addr_write,
                addr_bytes |-> IF addr_write = 1 THEN Append(last.addr_bytes, b)
                               ELSE last.addr_bytes,
                addr_reads |-> IF addr_write = 1 /\ last.addr_writes % 2 = 1 THEN 0
                               ELSE IF op = "ppu_read PPUADDR" THEN last.addr_reads + 1
                               ELSE last.addr_reads,
                data_accesses |-> IF op \in CpuDataOps THEN last.data_accesses + 1
                                  ELSE IF op \in PpuDataOps THEN 0
                                  ELSE last.data_accesses]
    /\ steps' = steps + 1
    /\ phase' = phase

\* cpu_write(PPUADDR, b)
CpuWritePpuAddr ==
    \E b \in RegBytes : RegOp("cpu_write PPUADDR", b, cpu_write(Machine, \h2006, b), 1)

\* cpu_write(PPUDATA, b)
CpuWritePpuData ==
    \E b \in RegBytes : RegOp("cpu_write PPUDATA", b, cpu_write(Machine, \h2007, b), 0)

\* cpu_read(PPUDATA)
CpuReadPpuData ==
    RegOp("cpu_read PPUDATA", cpu_read(Machine, \h2007).v, cpu_read(Machine, \h2007).m, 0)

\* Cpu::write(0x2007, b)
BusWritePpuData ==
    \E b \in RegBytes : RegOp("write 0x2007", b, write(Machine, \h2007, b), 0)

\* ppu_read(PPUADDR); `data` is the Option returned
PpuReadPpuAddr ==
    RegOp("ppu_read PPUADDR", ppu_read(Machine, "PPUADDR").v,
          ppu_read(Machine, "PPUADDR").m, 0)

\* ppu_read(PPUDATA)
PpuReadPpuData ==
    RegOp("ppu_read PPUDATA", ppu_read(Machine, "PPUDATA").v,
          ppu_read(Machine, "PPUDATA").m, 0)

\* ppu_write(PPUDATA, b)
PpuWritePpuData ==
    \E b \in RegBytes : RegOp("ppu_write PPUDATA", b, ppu_write(Machine, "PPUDATA", b), 0)

NextRegBus ==
    \/ CpuWritePpuAddr \/ CpuWritePpuData \/ CpuReadPpuData \/ BusWritePpuData
    \/ PpuReadPpuAddr \/ PpuReadPpuData \/ PpuWritePpuData

SpecRegBus == InitRegBus /\ [][NextRegBus]_vars

-----------------------------------------------------------------------------
(* The PPU core on its own: the CPU's side reaches PPUADDR and PPUDATA      *)
(* through Memory::write and Memory::read, the driver calls Ppu::step       *)
(* (main.rs:52-58, 88, 114)                                                 *)

\* operations in one run
MaxPpuOps == 4

PpuBytes == {\h00, \h21, \hFF}
CpuCycles == {2, 7}

InitPpu ==
    /\ a = 0 /\ x = 0 /\ y = 0
    /\ pc = PRG_ROM_BASE
    /\ s = \hFD
    /\ status = \h34
    /\ ram = ZeroRam
    /\ prg_rom = PrgRom(<<>>, 1)
    /\ InitNes
    /\ last = [op |-> "none", ops |-> <<>>, args |-> <<>>]
    /\ steps = 0
    /\ phase = "ppu"

\* operation `op` with input or result b took Memory and Ppu from Machine to
\* m; ops lists the operations so far and args their inputs or results
PpuOp(op, b, m) ==
    /\ phase = "ppu"
    /\ panic = NoPanic
    /\ steps < MaxPpuOps
    /\ Commit(m)
    /\ last' = [op |-> op, data |-> b, pre |-> Machine, ops |-> Append(last.ops, op),
                args |-> Append(last.args, b)]
    /\ steps' = steps + 1
    /\ phase' = phase

\* ppu.init(&mut mem, ..), before anything else
PpuInit == steps = 0 /\ PpuOp("init", 0, Ppu_init(Machine))

\* mem.write(0x2006, b)
MemWritePpuAddr ==
    \E b \in PpuBytes : PpuOp("write PPUADDR", b, Memory_write(Machine, \h2006, b))

\* mem.write(0x2007, b)
MemWritePpuData ==
    \E b \in PpuBytes : PpuOp("write PPUDATA", b, Memory_write(Machine, \h2007, b))

\* mem.read(0x2007)
MemReadPpuData ==
    PpuOp("read PPUDATA", Memory_read(Machine, \h2007).v, Memory_read(Machine, \h2007).m)

\* ppu.step(&mut mem, cycle)
PpuStep == \E c \in CpuCycles : PpuOp("step", c, step(Machine, c))

NextPpu == PpuInit \/ MemWritePpuAddr \/ MemWritePpuData \/ MemReadPpuData \/ PpuStep

SpecPpu == InitPpu /\ [][NextPpu]_vars

-----------------------------------------------------------------------------
(* The driver loop: `let cycle = cpu.tick(..); ppu.step(&mut mem, cycle);`  *)
(* (main.rs:112-115).  Cpu::tick works on Nes and its PpuRegisterBus        *)
(* (cpu.rs:68-72, 121-131), Ppu::step on Memory (ppu.rs:114-124).           *)

\* STA $2007; STA $2006 twice; STA $2006 twice, then STA $2007
DriverPrograms ==
    {<<\h8D, \h07, \h20>>,
     <<\h8D, \h06, \h20, \h8D, \h06, \h20>>,
     <<\h8D, \h06, \h20, \h8D, \h06, \h20, \h8D, \h07, \h20>>}

DriverBytes == {\h00, \h21, \h3F}

\* Memory and Ppu after Ppu::new and Memory::new, and after ppu.init
DriverCores ==
    {[memory |-> MemoryNew, ppu |-> PpuNew, panic |-> NoPanic],
     Ppu_init([memory |-> MemoryNew, ppu |-> PpuNew, panic |-> NoPanic])}

InitDriver ==
    /\ \E prog \in DriverPrograms : prg_rom = PrgRom(prog, 1)
    /\ ram = ZeroRam
    /\ a \in DriverBytes /\ x = 0 /\ y = 0
    /\ status = \h34
    /\ pc = PRG_ROM_BASE
    /\ s = \hFD
    /\ cpu_interruption = "None"
    /\ ppu_addr_higher = None /\ ppu_addr = None
    /\ ppu_data = 0 /\ ppu_data_status = "None"
    /\ panic = NoPanic
    /\ overflow_checks \in BOOLEAN
    /\ \E core \in DriverCores : memory = core.memory /\ ppu = core.ppu
    /\ phase = "execute"
    /\ last = NoOperation
    /\ steps = 0

\* cpu.tick: the step of the previous tick has been made
DriverExecSTA == last.op # "execute" /\ ExecSTA
DriverExecBRK == last.op # "execute" /\ ExecBRK

\* ppu.step(&mut mem, cycle) with the cycles the tick returned
DriverStep ==
    /\ phase = "execute"
    /\ panic = NoPanic
    /\ last.op = "execute"
    /\ Commit(step(Machine, last.cycle))
    /\ last' = [op |-> "step", tick |-> last, pre |-> Machine]
    /\ UNCHANGED <<phase, steps>>

NextDriver == DriverExecSTA \/ DriverExecBRK \/ Interrupt \/ DriverStep

SpecDriver == InitDriver /\ [][NextDriver]_vars

-----------------------------------------------------------------------------
(* The PPU's frame: Ppu::step after Ppu::step on a Memory the CPU leaves    *)
(* alone (ppu.rs:114-124, 205-222)                                          *)

\* the cycles a tick returns
FrameCycles == 2 .. 8

InitFrame ==
    /\ a = 0 /\ x = 0 /\ y = 0
    /\ pc = PRG_ROM_BASE
    /\ s = \hFD
    /\ status = \h34
    /\ ram = ZeroRam
    /\ prg_rom = PrgRom(<<>>, 1)
    /\ InitNes
    /\ last = NoOperation
    /\ steps = 0
    /\ phase = "frame"

\* ppu.step(&mut mem, c)
FrameStep ==
    /\ phase = "frame"
    /\ panic = NoPanic
    /\ \E c \in FrameCycles :
          /\ Commit(step(Machine, c))
          /\ last' = [op |-> "step", data |-> c, pre |-> Machine]
    /\ UNCHANGED <<phase, steps>>

NextFrame == FrameStep

SpecFrame == InitFrame /\ [][NextFrame]_vars

\* the driver's loop never stops calling step while the process runs
SpecFrameFair == SpecFrame /\ WF_vars(NextFrame)

-----------------------------------------------------------------------------
(* The PPU's own bus on its own: Ppu::read and Ppu::write applied to PPU    *)
(* addresses (ppu.rs:143-172)                                               *)

\* accesses in one run
MaxVramOps == 2

\* pattern tables, name tables and their mirrors, palette RAM, past the map
PpuAddresses ==
    {\h0000, \h1FFF, \h2000, \h27FF, \h2FFF, \h3000, \h3EFF, \h3F00, \h3F10,
     \h3FFF, \h4000}

InitVram ==
    /\ a = 0 /\ x = 0 /\ y = 0
    /\ pc = PRG_ROM_BASE
    /\ s = \hFD
    /\ status = \h34
    /\ ram = ZeroRam
    /\ prg_rom = PrgRom(<<>>, 1)
    /\ InitNes
    /\ last = NoOperation
    /\ steps = 0
    /\ phase = "vram"

\* self.read(addr)
VramRead ==
    /\ phase = "vram"
    /\ panic = NoPanic
    /\ steps < MaxVramOps
    /\ \E addr \in PpuAddresses :
          /\ Commit(Ppu_read(Machine, addr).m)
          /\ last' = [op |-> "read", addr |-> addr, data |-> Ppu_read(Machine, addr).v,
                      pre |-> Machine]
    /\ steps' = steps + 1
    /\ phase' = phase

\* self.write(addr, b)
VramWrite ==
    /\ phase = "vram"
    /\ panic = NoPanic
    /\ steps < MaxVramOps
    /\ \E addr \in PpuAddresses, b \in PpuBytes :
          /\ Commit(Ppu_write(Machine, addr, b))
          /\ last' = [op |-> "write", addr |-> addr, data |-> b, pre |-> Machine]
    /\ steps' = steps + 1
    /\ phase' = phase

NextVram == VramRead \/ VramWrite

SpecVram == InitVram /\ [][NextVram]_vars

-----------------------------------------------------------------------------
(* Properties.  `last` holds what the last operation was given (the machine *)
(* before it, the byte decoded) and what it returned.                       *)

\* execute_instruction has returned from the opcode `name` in mode `mode`
Executed(name, mode) ==
    /\ phase = "interrupt"
    /\ panic = NoPanic
    /\ last.op = "execute"
    /\ last.instr[1] = Op(name)
    /\ last.instr[2] = mode

\* the n-th byte after the opcode byte of the instruction executed
OperandByte(n) == read(last.pre, (last.pre.pc + n) % Word).v

\* its two operand bytes as an address, low byte first
OperandWord == OperandByte(2) * 256 + OperandByte(1)

\* that address indexed by X
IndexedWord == (OperandWord + last.pre.x) % Word

FlagSet(f) == Bit(status, f)
WasSet(f) == Bit(last.pre.status, f)
StatusBits == {1, 2, 4, 8, 16, 32, 64, 128}

OpcodeNames ==
    {"ADC", "AND", "ASL", "BCC", "BCS", "BEQ", "BIT", "BMI", "BNE", "BPL", "BRK",
     "BVC", "BVS", "CLC", "CLD", "CLI", "CLV", "CMP", "CPX", "CPY", "DEC", "DEX",
     "DEY", "EOR", "INC", "INX", "INY", "JMP", "JSR", "LDA", "LDX", "LDY", "LSR",
     "NOP", "ORA", "PHA", "PHP", "PLA", "PLP", "ROL", "ROR", "RTI", "RTS", "SBC",
     "SEC", "SED", "SEI", "STA", "STX", "STY", "TAX", "TAY", "TSX", "TXA", "TXS",
     "TYA", "ISC", "KIL", "SLO"}

AddressingNames ==
    {"Accumulator", "Absolute", "AbsoluteX", "AbsoluteY", "Immediate", "Implied",
     "IndexedIndirect", "Indirect", "IndirectIndexed", "Relative", "ZeroPage",
     "ZeroPageX", "ZeroPageY", "UNKNOWN"}

\* C1: decoding is total: every byte 0..255 decodes to a triple of an opcode,
\* an addressing mode and a cycle count, and a byte without an arm of its own
\* in the table decodes to UNKNOWN carrying that very byte, with addressing
\* UNKNOWN and 0 cycles.
C1_DecodeTotal ==
    last.op = "decode" =>
        /\ last.instr[1] \in {Op(n) : n \in OpcodeNames} \cup {UNKNOWN(b) : b \in 0 .. 255}
        /\ last.instr[2] \in AddressingNames
        /\ last.instr[3] \in Nat
        /\ last.byte \notin TableBytes =>
              last.instr = <<UNKNOWN(last.byte), "UNKNOWN", 0>>
        /\ last.byte \in TableBytes =>
              last.instr[1] \in {Op(n) : n \in OpcodeNames}

\* 0xEA has no arm in the table and decodes to UNKNOWN(0xEA)
C1_Witness ==
    /\ last.op = "decode"
    /\ last.byte = \hEA
    /\ last.instr = <<UNKNOWN(\hEA), "UNKNOWN", 0>>

\* register `reg` holds v, Zero says v = 0 and Negative says bit 7 of v
Loaded(reg, v) ==
    /\ reg = v
    /\ FlagSet(Zero) <=> v = 0
    /\ FlagSet(Negative) <=> Bit(v, 128)

\* C2: after LDA (Immediate, Absolute, AbsoluteX), LDX Immediate and LDY
\* Immediate with operand value v the target register is v, Zero is set iff
\* v = 0 and Negative iff bit 7 of v is set, whatever the flags were; LDA #0
\* gives A = 0, Zero, not Negative, and 2 cycles.
C2_Loads ==
    /\ Executed("LDA", "Immediate") => Loaded(a, OperandByte(1))
    /\ Executed("LDA", "Absolute") => Loaded(a, read(last.pre, OperandWord).v)
    /\ Executed("LDA", "AbsoluteX") => Loaded(a, read(last.pre, IndexedWord).v)
    /\ Executed("LDX", "Immediate") => Loaded(x, OperandByte(1))
    /\ Executed("LDY", "Immediate") => Loaded(y, OperandByte(1))
    /\ Executed("LDA", "Immediate") /\ OperandByte(1) = 0 =>
          a = 0 /\ FlagSet(Zero) /\ ~FlagSet(Negative) /\ last.cycle = 2

\* LDA #0 with A = 0x80 and Negative set before it
C2_Witness ==
    /\ Executed("LDA", "Immediate")
    /\ OperandByte(1) = 0
    /\ last.pre.a = \h80 /\ WasSet(Negative)
    /\ a = 0 /\ FlagSet(Zero) /\ ~FlagSet(Negative)
    /\ last.cycle = 2

\* the condition on which the branch `name` is taken
BranchCondition(name) ==
    CASE name = "BMI" -> WasSet(Negative)
      [] name = "BNE" -> ~WasSet(Zero)
      [] name = "BPL" -> ~WasSet(Negative)
      [] name = "BVC" -> ~WasSet(Overflow)

\* the address of the byte after the 2-byte branch instruction
NextInstruction == (last.pre.pc + 2) % Word

BranchLaw(name) ==
    Executed(name, "Relative") =>
        IF BranchCondition(name)
        THEN /\ pc = (NextInstruction + AsI8(OperandByte(1)) + Word) % Word
             /\ last.cycle = IF pc \div 256 = NextInstruction \div 256 THEN 3 ELSE 4
        ELSE /\ pc = NextInstruction
             /\ last.cycle = 2

\* C3: a BMI, BNE, BPL or BVC that is not taken leaves pc at the next
\* instruction and returns 2 cycles; taken, it sets pc to (next + d) mod 2^16
\* for the signed offset d and returns 3 cycles when pc and next share their
\* high byte, 4 when they do not.
C3_BranchLaw == \A name \in {"BMI", "BNE", "BPL", "BVC"} : BranchLaw(name)

\* BMI -3 from 0x8000, taken: pc = 0x7FFF in another page, 4 cycles
C3_Witness ==
    /\ Executed("BMI", "Relative")
    /\ WasSet(Negative)
    /\ OperandByte(1) = \hFD
    /\ pc = \h7FFF
    /\ last.cycle = 4

\* the stack law as stated, for the pops made so far after push_word(v)
StackLaw ==
    /\ panic = NoPanic
    /\ Len(last.pops) >= 1 => last.pops[1] = last.word % 256
    /\ Len(last.pops) = 2 =>
          /\ last.pops[2] = last.word \div 256
          /\ s = last.pre.s

\* C4: push_word(v) followed by two pops returns the low byte of v, then its
\* high byte, and leaves the stack pointer where it was before the push, for
\* every v and every stack pointer with room for two bytes.
C4_StackLaw == last.op = "pop" => StackLaw

\* the two pops after push_word(0x1234) at 0xFD return 0x00 and 0x34
C4_Diverges ==
    /\ last.op = "pop"
    /\ last.word = \h1234
    /\ last.pre.s = \hFD
    /\ last.pre.ram = ZeroRam
    /\ last.pops = <<\h00, \h34>>
    /\ s = \hFD

\* the cycles returned are the table's, plus one when the operand address and
\* the address indexed by X are in different pages
PagePenalty(name) ==
    Executed(name, "AbsoluteX") =>
        last.cycle = last.instr[3]
                     + (IF OperandWord \div 256 = IndexedWord \div 256 THEN 0 ELSE 1)

\* the cycles returned are the table's, whatever the page of the indexed address
NoPagePenalty(name) == Executed(name, "AbsoluteX") => last.cycle = last.instr[3]

\* C5 as stated: ASL, LDA, NOP and ISC in AbsoluteX mode return the table's
\* cycles when the operand address and the address indexed by X share a page
\* and one cycle more when they do not.
C5_CycleLaw_AsStated == \A name \in {"ASL", "LDA", "NOP", "ISC"} : PagePenalty(name)

\* C5: LDA and NOP in AbsoluteX mode return the table's cycles when the
\* operand address and the address indexed by X share a page and one cycle
\* more when they do not; ASL and ISC in AbsoluteX mode return the table's
\* cycles in both cases.
C5_CycleLaw ==
    /\ \A name \in {"LDA", "NOP"} : PagePenalty(name)
    /\ \A name \in {"ASL", "ISC"} : NoPagePenalty(name)

\* ASL $01FF,X with X = 1 shifts the cell at 0x0200 and returns 7 cycles
C5_Witness ==
    /\ Executed("ASL", "AbsoluteX")
    /\ OperandWord = \h01FF
    /\ IndexedWord = \h0200
    /\ last.cycle = 7

\* C6: a write of v to any mirror a + 0x0800 k of a RAM cell a is read back as
\* v at a and at every mirror of a, a read at any mirror returns the cell's
\* value, and after any writes the four mirrors of a cell read the same.
C6_RamMirroring ==
    phase = "bus" =>
        /\ panic = NoPanic
        /\ last.op = "write" =>
              \A k \in Mirrors : read(Machine, Mirror(last.addr % RAM_SIZE, k)).v = last.data
        /\ last.op = "read" => last.data = Get(last.pre.ram, last.addr % RAM_SIZE)
        /\ \A c \in BusCells, k \in Mirrors :
              read(Machine, Mirror(c, k)).v = Get(ram, c)

\* 0xA5 written at 0x17FF, the third mirror of 0x07FF, is read at 0x0FFF
C6_Witness ==
    /\ phase = "bus"
    /\ last.op = "read"
    /\ last.addr = \h0FFF
    /\ last.data = \hA5
    /\ steps = 2
    /\ Get(ram, \h07FF) = \hA5
    /\ \A c \in BusCells \ {\h07FF} : Get(ram, c) = 0

\* C7: from a fresh register bus the writes to PPUADDR alternate high, low,
\* high, ...: an odd write stores its byte as the high byte and leaves the
\* completed address alone, an even write completes the address
\* (high << 8) | low and makes the next write a high one; reads and writes of
\* PPUDATA change neither.
C7_AddressLatch ==
    phase = "regbus" =>
        /\ panic = NoPanic
        /\ ppu_addr_higher = None <=> last.addr_writes % 2 = 0
        /\ last.op = "cpu_write PPUADDR" /\ last.addr_writes % 2 = 1 =>
              /\ last.pre.ppu_addr_higher = None
              /\ ppu_addr_higher = Some(last.data)
              /\ ppu_addr = last.pre.ppu_addr
        /\ last.op = "cpu_write PPUADDR" /\ last.addr_writes % 2 = 0 =>
              /\ last.pre.ppu_addr_higher # None
              /\ ppu_addr = Some(Unwrap(last.pre.ppu_addr_higher) * 256 + last.data)
              /\ ppu_addr_higher = None
        /\ last.op \in {"cpu_write PPUDATA", "cpu_read PPUDATA"} =>
              /\ ppu_addr_higher = last.pre.ppu_addr_higher
              /\ ppu_addr = last.pre.ppu_addr

\* the third write to PPUADDR, after 0x3F then 0x00: 0x3F00 stays, 0x21 is high
C7_Witness ==
    /\ phase = "regbus"
    /\ last.op = "cpu_write PPUADDR"
    /\ last.addr_writes = 3
    /\ ppu_addr = Some(\h3F00)
    /\ ppu_addr_higher = Some(\h21)

\* the address after the three bytes of the instruction executed
ReturnAddress == (last.pre.pc + 3) % Word

\* C8: a JSR at address p sets pc to the operand word, leaves the high byte
\* of p + 3 in the cell the stack pointer named and the low byte in the cell
\* below it, lowers the stack pointer by 2, changes no flag and none of A, X,
\* Y, and returns 6 cycles.
C8_Jsr ==
    Executed("JSR", "Absolute") =>
        /\ pc = OperandWord
        /\ Get(ram, last.pre.s) = ReturnAddress \div 256
        /\ Get(ram, (last.pre.s + Word - 1) % Word) = ReturnAddress % 256
        /\ s = (last.pre.s + Word - 2) % Word
        /\ status = last.pre.status
        /\ a = last.pre.a /\ x = last.pre.x /\ y = last.pre.y
        /\ last.cycle = 6

\* JSR $9009 at 0x8000 with the stack pointer at 0xFD
C8_Witness ==
    /\ Executed("JSR", "Absolute")
    /\ last.pre.pc = \h8000
    /\ last.pre.s = \hFD
    /\ pc = \h9009
    /\ Get(ram, \hFD) = \h80
    /\ Get(ram, \hFC) = \h03
    /\ s = \hFB
    /\ last.cycle = 6

\* the cell DEC addresses in mode `mode`
DecCell(mode) ==
    IF mode = "ZeroPage" THEN OperandByte(1)
    ELSE (OperandByte(1) + last.pre.x) % Byte

\* new = (old + delta) mod 256, Zero and Negative follow new, Carry and
\* Overflow are as they were
Stepped(new, old, delta) ==
    /\ new = (old + delta + Byte) % Byte
    /\ FlagSet(Zero) <=> new = 0
    /\ FlagSet(Negative) <=> Bit(new, 128)
    /\ FlagSet(Carry) <=> WasSet(Carry)
    /\ FlagSet(Overflow) <=> WasSet(Overflow)

\* C9: DEC in ZeroPage and ZeroPageX mode writes (m - 1) mod 256 back to the
\* cell it addresses, DEY sets Y to (Y - 1) mod 256 and INX sets X to
\* (X + 1) mod 256; Zero is set iff the new value is 0, Negative iff its bit 7
\* is set, Carry and Overflow do not change; the cycles returned are 5 and 6
\* for DEC and 2 for DEY and INX.
C9_IncDecWrap ==
    /\ \A mode \in {"ZeroPage", "ZeroPageX"} :
          Executed("DEC", mode) =>
              /\ Stepped(Get(ram, DecCell(mode)), Get(last.pre.ram, DecCell(mode)), -1)
              /\ last.cycle = IF mode = "ZeroPage" THEN 5 ELSE 6
    /\ Executed("DEY", "Implied") => Stepped(y, last.pre.y, -1) /\ last.cycle = 2
    /\ Executed("INX", "Implied") => Stepped(x, last.pre.x, 1) /\ last.cycle = 2

\* DEC $10 with 0x00 in the cell at 0x10
C9_Witness ==
    /\ Executed("DEC", "ZeroPage")
    /\ OperandByte(1) = \h10
    /\ Get(last.pre.ram, \h10) = \h00
    /\ Get(ram, \h10) = \hFF
    /\ ~FlagSet(Zero) /\ FlagSet(Negative)
    /\ last.cycle = 5

\* the instruction `name` has left flag f at v and nothing else changed but
\* pc, which is one further
SingleFlag(name, f, v) ==
    Executed(name, "Implied") =>
        /\ FlagSet(f) <=> v
        /\ \A g \in StatusBits \ {f} : FlagSet(g) <=> WasSet(g)
        /\ a = last.pre.a /\ x = last.pre.x /\ y = last.pre.y
        /\ s = last.pre.s
        /\ ram = last.pre.ram
        /\ pc = (last.pre.pc + 1) % Word
        /\ last.cycle = 2

\* C10: SEI sets InterruptDisable and CLC, CLD, CLI, CLV clear Carry,
\* Decimal, InterruptDisable and Overflow; each leaves every other status
\* bit, A, X, Y, the stack pointer and RAM as they were, moves pc on by 1 and
\* returns 2 cycles.
C10_SingleFlag ==
    /\ SingleFlag("SEI", InterruptDisable, TRUE)
    /\ SingleFlag("CLC", Carry, FALSE)
    /\ SingleFlag("CLD", Decimal, FALSE)
    /\ SingleFlag("CLI", InterruptDisable, FALSE)
    /\ SingleFlag("CLV", Overflow, FALSE)

\* SEI with InterruptDisable clear and Decimal set before it
C10_Witness ==
    /\ Executed("SEI", "Implied")
    /\ ~WasSet(InterruptDisable) /\ WasSet(Decimal)
    /\ FlagSet(InterruptDisable) /\ FlagSet(Decimal)
    /\ last.cycle = 2

AslModes == {"Accumulator", "ZeroPage", "ZeroPageX", "Absolute", "AbsoluteX"}

\* the address the instruction executed operates on in a memory mode
EffectiveAddress(mode) ==
    CASE mode = "ZeroPage" -> OperandByte(1)
      [] mode = "ZeroPageX" -> OperandByte(1) + last.pre.x
      [] mode = "Absolute" -> OperandWord
      [] mode = "AbsoluteX" -> IndexedWord

\* the value ASL shifts, and the value it leaves
AslOperand(mode) ==
    IF mode = "Accumulator" THEN last.pre.a
    ELSE read(last.pre, EffectiveAddress(mode)).v
AslResult(mode) == (AslOperand(mode) * 2) % Byte

\* C11: after ASL in any addressing mode Zero is set iff the shifted 8-bit
\* result is 0.
C11_AslZero ==
    \A mode \in AslModes :
        Executed("ASL", mode) => (FlagSet(Zero) <=> AslResult(mode) = 0)

\* ASL A with A = 0x80 and Zero clear: the result is 0 and Zero stays clear
C11_Diverges ==
    /\ Executed("ASL", "Accumulator")
    /\ last.pre.a = \h80
    /\ a = 0
    /\ ~FlagSet(Zero)

\* C12: ASL leaves (operand * 2) mod 256 where the operand was: in A in
\* Accumulator mode, in the addressed cell in the memory modes, which leave A
\* alone; Carry is bit 7 of the operand before the shift, Negative is bit 7
\* of the result, and the cycles are 2, 5, 6, 6, 7 for Accumulator, ZeroPage,
\* ZeroPageX, Absolute, AbsoluteX.
C12_Asl ==
    \A mode \in AslModes :
        Executed("ASL", mode) =>
            /\ IF mode = "Accumulator"
               THEN a = AslResult(mode) /\ ram = last.pre.ram
               ELSE /\ read(Machine, EffectiveAddress(mode)).v = AslResult(mode)
                    /\ ram = Set(last.pre.ram, EffectiveAddress(mode) % RAM_SIZE,
                                 AslResult(mode))
                    /\ a = last.pre.a
            /\ FlagSet(Carry) <=> Bit(AslOperand(mode), 128)
            /\ FlagSet(Negative) <=> Bit(AslResult(mode), 128)
            /\ last.cycle = CASE mode = "Accumulator" -> 2
                              [] mode = "ZeroPage" -> 5
                              [] mode \in {"ZeroPageX", "Absolute"} -> 6
                              [] mode = "AbsoluteX" -> 7

\* ASL $10 on a cell holding 0x80 with Carry clear: the cell becomes 0, Carry is set
C12_Witness ==
    /\ Executed("ASL", "ZeroPage")
    /\ OperandByte(1) = \h10
    /\ Get(last.pre.ram, \h10) = \h80
    /\ ~WasSet(Carry)
    /\ Get(ram, \h10) = 0
    /\ FlagSet(Carry) /\ ~FlagSet(Negative)
    /\ a = last.pre.a
    /\ last.cycle = 5

\* the tick that executed the opcode `name` is over: interrupt() has run too
TickDone(name) ==
    /\ phase = "execute"
    /\ panic = NoPanic
    /\ last.op = "execute"
    /\ last.instr[1] = Op(name)

\* the address after the opcode byte of the instruction executed
AfterOpcode == (last.pre.pc + 1) % Word

\* the cell k below the one the stack pointer named before the instruction
StackCell(k) == Get(ram, (last.pre.s + Word - k) % Word)

\* C13: a tick that executes BRK with InterruptDisable clear ends with pc
\* pushed high byte first, then the status byte, the stack pointer 3 lower,
\* InterruptDisable set, pc loaded from the vector at 0xFFFE/0xFFFF and no
\* interruption pending; it returns 7 cycles.
C13_Break ==
    TickDone("BRK") /\ ~WasSet(InterruptDisable) =>
        /\ StackCell(0) = AfterOpcode \div 256
        /\ StackCell(1) = AfterOpcode % 256
        /\ StackCell(2) = BitOr(last.pre.status, Break)
        /\ s = (last.pre.s + Word - 3) % Word
        /\ FlagSet(InterruptDisable)
        /\ pc = read(last.pre, \hFFFF).v * 256 + read(last.pre, \hFFFE).v
        /\ cpu_interruption = "None"
        /\ last.cycle = 7

\* BRK at 0x8000 from status 0xCB on a 32 KiB cartridge whose vector is 0x9009
C13_Witness ==
    /\ TickDone("BRK")
    /\ last.pre.status = \hCB
    /\ last.pre.pc = \h8000
    /\ Get(ram, \hFD) = \h80 /\ Get(ram, \hFC) = \h01 /\ Get(ram, \hFB) = \hDB
    /\ s = \hFA
    /\ pc = \h9009
    /\ FlagSet(InterruptDisable)
    /\ cpu_interruption = "None"

\* C14: a BRK executed with InterruptDisable set pushes nothing and does not
\* redirect pc in its tick, and is not serviced in a later tick either: a
\* later CLI ends with nothing pushed and pc after it; no interruption is
\* pending after any tick.
C14_NotQueued ==
    phase = "execute" /\ last.op = "execute" =>
        /\ cpu_interruption = "None"
        /\ last.instr[1] = Op("BRK") /\ WasSet(InterruptDisable) =>
              /\ panic = NoPanic
              /\ s = last.pre.s /\ ram = last.pre.ram
              /\ pc = AfterOpcode
        /\ last.instr[1] = Op("CLI") =>
              /\ panic = NoPanic
              /\ s = last.pre.s /\ ram = last.pre.ram
              /\ pc = AfterOpcode

\* the tick of a CLI after a BRK that ran with InterruptDisable set ends with
\* three bytes pushed and pc at the vector
C14_Diverges ==
    /\ TickDone("CLI")
    /\ last.pre.cpu_interruption = "BRK"
    /\ last.pre.pc = \h8001
    /\ s = \hFA
    /\ Get(ram, \hFD) = \h80 /\ Get(ram, \hFC) = \h02
    /\ pc = \h9009

\* execute_instruction was entered for the opcode `name` in `mode`; it may
\* have panicked
Attempted(name, mode) ==
    /\ phase = "interrupt"
    /\ last.op = "execute"
    /\ last.instr[1] = Op(name)
    /\ last.instr[2] = mode

\* the fields of PpuRegisterBus in machine m
BusFields(m) == <<m.ppu_addr_higher, m.ppu_addr, m.ppu_data, m.ppu_data_status>>

\* the operand word of the instruction is an address in the cartridge ROM
RomOperand == OperandWord \in PRG_ROM_BASE .. \hFFFF

\* C15: a CPU write to an address in 0x8000..0xFFFF is a fatal error and
\* changes no RAM cell, no register-bus field and no program-ROM byte; the
\* program ROM is the same after every instruction as before it.
C15_RomReadOnly ==
    /\ last.op = "execute" => prg_rom = last.pre.prg_rom
    /\ \A name \in {"STA", "ASL"} :
          /\ Attempted(name, "Absolute")
          /\ RomOperand
          /\ Ok(read(last.pre, OperandWord).m)
          => /\ panic = "Cartridge space is read only"
             /\ ram = last.pre.ram
             /\ BusFields(Machine) = BusFields(last.pre)
             /\ prg_rom = last.pre.prg_rom

\* STA $9009 with A = 0x80: the byte at 0x1009 of the program ROM is still 0
C15_Witness ==
    /\ Attempted("STA", "Absolute")
    /\ OperandWord = \h9009
    /\ last.pre.a = \h80
    /\ panic = "Cartridge space is read only"
    /\ read_program(last.pre, \h1009).v = 0
    /\ prg_rom = last.pre.prg_rom

\* C16: with a 16 KiB program ROM, a CPU read at an address in 0xC000..0xFFFF
\* succeeds and returns the byte a read 0x4000 lower returns.
C16_PrgMirrored ==
    /\ Attempted("LDA", "Absolute")
    /\ last.pre.prg_rom.len = PRG_ROM_UNIT_SIZE
    /\ OperandWord \in \hC000 .. \hFFFF
    => /\ panic = NoPanic
       /\ a = read(last.pre, OperandWord - \h4000).v

\* LDA $C000 on a 16 KiB cartridge panics on the index into the program ROM
C16_Diverges ==
    /\ Attempted("LDA", "Absolute")
    /\ last.pre.prg_rom.len = PRG_ROM_UNIT_SIZE
    /\ OperandWord = \hC000
    /\ Ok(read(last.pre, \h8000).m)
    /\ panic = "index out of bounds: prg_rom"

\* the PPU register an address of 0x2000..0x3FFF names when the window of 8
\* registers repeats
WindowRegister(addr) == \h2000 + (addr % 8)

\* C17: a CPU write or read at an address in 0x2008..0x3FFF acts on the PPU
\* register at 0x2000 + (addr mod 8): the register bus ends as the same
\* access to that register leaves it, and a read returns what that register
\* returns.
C17_WindowMirrored ==
    /\ Attempted("STA", "Absolute") /\ OperandWord \in \h2008 .. \h3FFF
       => BusFields(Machine)
             = BusFields(cpu_write(last.pre, WindowRegister(OperandWord), last.pre.a))
    /\ Attempted("LDA", "Absolute") /\ OperandWord \in \h2008 .. \h3FFF
       => /\ BusFields(Machine)
               = BusFields(cpu_read(last.pre, WindowRegister(OperandWord)).m)
          /\ a = cpu_read(last.pre, WindowRegister(OperandWord)).v

\* STA $200E returns and leaves the address latch empty, where a write to
\* 0x2006 stores the byte in it
C17_Diverges ==
    /\ Executed("STA", "Absolute")
    /\ OperandWord = \h200E
    /\ ppu_addr_higher = None
    /\ cpu_write(last.pre, \h2006, last.pre.a).ppu_addr_higher = Some(last.pre.a)

\* C18: cpu_write(PPUDATA, b) makes b the buffered byte and the status
\* Written; cpu_read(PPUDATA) returns the buffered byte, keeps it and makes
\* the status Read; neither changes the address latch or the pending
\* address; a write to 0x2007 through the CPU's bus does the same as
\* cpu_write and changes no RAM cell.
C18_DataMailbox ==
    phase = "regbus" =>
        /\ last.op \in {"cpu_write PPUDATA", "write 0x2007"} =>
              /\ ppu_data = last.data
              /\ ppu_data_status = "Written"
        /\ last.op = "cpu_read PPUDATA" =>
              /\ last.data = last.pre.ppu_data
              /\ ppu_data = last.pre.ppu_data
              /\ ppu_data_status = "Read"
        /\ last.op \in CpuDataOps =>
              /\ ppu_addr_higher = last.pre.ppu_addr_higher
              /\ ppu_addr = last.pre.ppu_addr
        /\ last.op = "write 0x2007" => ram = last.pre.ram

\* cpu_read(PPUDATA) after 0x21 was written to 0x2007, a high address byte
\* waiting in the latch
C18_Witness ==
    /\ phase = "regbus"
    /\ last.op = "cpu_read PPUDATA"
    /\ last.pre.ppu_data_status = "Written"
    /\ last.data = \h21
    /\ ppu_data = \h21
    /\ ppu_data_status = "Read"
    /\ ppu_addr_higher = Some(\h3F)

\* the address the last completed pair of PPUADDR writes gave
CompletedAddress ==
    last.addr_bytes[(last.addr_writes \div 2) * 2 - 1] * 256
        + last.addr_bytes[(last.addr_writes \div 2) * 2]

\* C19: the first ppu_read(PPUADDR) after the CPU completed an address
\* returns that address, every other one returns None, and none leaves an
\* address pending; ppu_read(PPUDATA) and ppu_write(PPUDATA, b) leave the
\* data status idle, and it stays idle until the CPU accesses PPUDATA again.
C19_DrainOnce ==
    phase = "regbus" =>
        /\ last.op = "ppu_read PPUADDR" =>
              /\ last.data = IF last.addr_reads = 1 /\ last.addr_writes >= 2
                             THEN Some(CompletedAddress) ELSE None
              /\ ppu_addr = None
        /\ last.op \in PpuDataOps => ppu_data_status = "None"
        /\ last.data_accesses = 0 => ppu_data_status = "None"

\* the second ppu_read(PPUADDR) after the pair 0x3F, 0x00
C19_Witness ==
    /\ phase = "regbus"
    /\ last.op = "ppu_read PPUADDR"
    /\ last.addr_bytes = <<\h3F, \h00>>
    /\ last.addr_reads = 2
    /\ last.pre.ppu_addr = None
    /\ last.pre.ppu_addr_higher = None
    /\ last.data = None


\* the operation before the last one
PreviousOp == last.ops[Len(last.ops) - 1]

\* a step that follows an access of the CPU to PPUDATA; one that follows a step
StepAfterAccess ==
    /\ phase = "ppu" /\ last.op = "step" /\ Len(last.ops) >= 2
    /\ PreviousOp \in {"write PPUDATA", "read PPUDATA"}

StepAfterStep ==
    /\ phase = "ppu" /\ last.op = "step" /\ Len(last.ops) >= 2
    /\ PreviousOp = "step"

\* the VRAM transfers operate_vram starts from machine m
Transfers(m) == IF m.memory.ppu_data_state = "None" THEN 0 ELSE 1

\* C20: the step that follows a CPU-side write or read of PPUDATA makes
\* exactly one VRAM transfer, returns and leaves the data state idle; a step
\* that follows a step, with no CPU access in between, makes no transfer.
C20_ServicedOnce ==
    /\ StepAfterAccess =>
          /\ Transfers(last.pre) = 1
          /\ panic = NoPanic
          /\ memory.ppu_data_state = "None"
    /\ StepAfterStep => Transfers(last.pre) = 0

\* mem.read(0x2007), a step that leaves the state Written, and a second step
\* that starts a VRAM write and panics in it
C20_Diverges ==
    /\ phase = "ppu"
    /\ last.ops = <<"read PPUDATA", "step", "step">>
    /\ last.pre.memory.ppu_data_state = "Written"
    /\ Transfers(last.pre) = 1
    /\ panic = "Write access is forbidden"

\* the operand word of the instruction of the tick before the step
TickOperandWord ==
    read(last.tick.pre, (last.tick.pre.pc + 1) % Word).v
        + read(last.tick.pre, (last.tick.pre.pc + 2) % Word).v * 256

\* the driver's step after a tick that executed STA at addr and returned
StepAfterSta(addr) ==
    /\ last.op = "step"
    /\ last.tick.instr[1] = Op("STA")
    /\ TickOperandWord = addr

\* C21: the step the driver runs after a tick whose instruction wrote PPUDATA
\* consumes that byte: it makes one VRAM transfer and the byte is no longer
\* pending; the step after a tick that completed an address in PPUADDR takes
\* that address as the PPU's.
C21_NextStepSees ==
    /\ StepAfterSta(\h2007) =>
          /\ Transfers(last.pre) = 1
          /\ ppu_data_status = "None"
    /\ StepAfterSta(\h2006) /\ last.pre.ppu_addr # None =>
          /\ ppu_addr = None
          /\ ppu.ppu_addr = Unwrap(last.pre.ppu_addr)

\* STA $2007 with A = 0x21, then the step: the byte is still pending in the
\* register bus, Memory was never written and the step made no transfer
C21_Diverges ==
    /\ StepAfterSta(\h2007)
    /\ last.tick.pre.a = \h21
    /\ panic = NoPanic
    /\ ppu_data = \h21 /\ ppu_data_status = "Written"
    /\ last.pre.memory = MemoryNew /\ memory = MemoryNew
    /\ Transfers(last.pre) = 0
    /\ ppu.vram = ZeroRam

\* the last four operations were writes of h and l to PPUADDR, a write of b to
\* PPUDATA and a step
StepAfterAddressedWrite ==
    /\ phase = "ppu" /\ last.op = "step" /\ Len(last.ops) >= 4
    /\ last.ops[Len(last.ops) - 3] = "write PPUADDR"
    /\ last.ops[Len(last.ops) - 2] = "write PPUADDR"
    /\ last.ops[Len(last.ops) - 1] = "write PPUDATA"

\* (h << 8) | l of those writes, and b
WrittenAddress == last.args[Len(last.args) - 3] * 256 + last.args[Len(last.args) - 2]
WrittenByte == last.args[Len(last.args) - 1]

\* C22: after writes of h and l to PPUADDR and of b to PPUDATA the step
\* transfers to the address (h << 8) | l and leaves b in VRAM there.
C22_AddressPair ==
    StepAfterAddressedWrite =>
        /\ operate_address(last.pre).ppu.ppu_addr = WrittenAddress
        /\ panic = NoPanic
        /\ Ppu_read(Machine, WrittenAddress).v = WrittenByte

\* 0x21 and 0x00 to PPUADDR, 0xFF to PPUDATA, a step: the address is 0x0000,
\* the write there is forbidden
C22_Diverges ==
    /\ StepAfterAddressedWrite
    /\ last.ops[1] = "write PPUADDR"
    /\ WrittenAddress = \h2100 /\ WrittenByte = \hFF
    /\ operate_address(last.pre).ppu.ppu_addr = \h0000
    /\ panic = "Write access is forbidden"

\* a step of the frame loop has returned
FrameStepped == phase = "frame" /\ last.op = "step" /\ panic = NoPanic

\* the cycle counter the step reached before the end-of-frame test
Accumulated == last.pre.ppu.cycle_counter + 3 * last.data

BandDue ==
    /\ last.pre.ppu.batch_counter < RENDERING_BATCH_NUM
    /\ Accumulated >= CYCLES_PER_SCANLINE * RENDERING_BATCH_LINES
                          * (last.pre.ppu.batch_counter + 1)

C25_FramesComplete ==
    [](phase = "frame" =>
          /\ panic = NoPanic
          /\ last.op = "step" /\ Accumulated >= CYCLES_PER_FRAME =>
                /\ last.pre.ppu.batch_counter = RENDERING_BATCH_NUM
                /\ ppu.batch_counter = 0)

\* the PPU has halted in the first frame, no band rendered
C25_Diverges ==
    /\ phase = "frame" /\ last.op = "step"
    /\ panic # NoPanic
    /\ ppu.batch_counter = 0
    /\ ppu.cycle_counter >= CYCLES_PER_SCANLINE * RENDERING_BATCH_LINES
    /\ ppu.cycle_counter < CYCLES_PER_FRAME

\* what a handler or fetch_addressed_data panics with when it has no arm for
\* the addressing mode it is given, or only a todo!() one
ModePanics ==
    {"Unknown addressing mode", "not implemented",
     "Invalid BMI addressing mode", "Invalid BPL addressing mode",
     "Invalid KIL addressing mode", "Unknown BNE addressing mode",
     "Unknown BRK addressing mode", "Unknown BVC addressing mode",
     "Unknown DEC addressing mode", "Unknown ISC addressing mode",
     "Unknown LDA addressing mode", "Unknown SLO addressing mode"}

\* C26: an opcode byte that decodes to an opcode with an arm in
\* execute_instruction never ends in a panic about its addressing mode.
C26_TableMatches ==
    /\ phase = "interrupt"
    /\ last.op = "execute"
    /\ last.instr[1][1] \in Handled
    => panic \notin ModePanics

\* byte 0xA5, LDA ZeroPage in the table: instruction_lda has no arm for it
C26_Diverges ==
    /\ Attempted("LDA", "ZeroPage")
    /\ last.byte = \hA5
    /\ panic = "Unknown LDA addressing mode"

\* the opcode decoded has no arm in execute_instruction
Unhandled == last.instr[1][1] \notin Handled

\* C27: an opcode byte that decodes to UNKNOWN or to an opcode without an
\* arm in execute_instruction is fatal: the process panics in that
\* instruction, nothing runs after it, and A, X, Y, the stack pointer, the
\* status byte and RAM are as before it.
C27_UnhandledFatal ==
    /\ last.op = "execute" /\ Unhandled =>
          /\ panic = "unknown opcode"
          /\ phase = "interrupt"
          /\ a = last.pre.a /\ x = last.pre.x /\ y = last.pre.y
          /\ s = last.pre.s
          /\ status = last.pre.status
          /\ ram = last.pre.ram
    /\ panic = "unknown opcode" => last.op = "execute" /\ Unhandled

\* byte 0xC9, CMP Immediate in the table, with A = 0x80
C27_Witness ==
    /\ last.op = "execute"
    /\ last.byte = \hC9
    /\ last.instr[1] = Op("CMP")
    /\ last.pre.a = \h80
    /\ a = \h80
    /\ panic = "unknown opcode"

\* cells 0x0000..0x00FF of RAM are as before the instruction
ZeroPageKept == \A c \in 0 .. 255 : Get(ram, c) = Get(last.pre.ram, c)

\* the cell of page 1 that an 8-bit stack pointer k below the old one selects
StackPageCell(k) == Get(ram, \h0100 + ((last.pre.s + Byte - k) % Byte))

\* C29: the bytes JSR pushes, and those the servicing of a break pushes, are
\* in cells 0x0100..0x01FF selected by the low 8 bits of the stack pointer,
\* and no cell of the zero page changes.
C29_StackPage ==
    /\ Executed("JSR", "Absolute") =>
          /\ StackPageCell(0) = ReturnAddress \div 256
          /\ StackPageCell(1) = ReturnAddress % 256
          /\ ZeroPageKept
    /\ TickDone("BRK") /\ ~WasSet(InterruptDisable) =>
          /\ StackPageCell(0) = AfterOpcode \div 256
          /\ StackPageCell(1) = AfterOpcode % 256
          /\ StackPageCell(2) = BitOr(last.pre.status, Break)
          /\ ZeroPageKept

\* JSR with the stack pointer at 0x00FD: the high byte of the return address
\* is in cell 0x00FD of the zero page, cell 0x01FD is as it was
C29_Diverges ==
    /\ Executed("JSR", "Absolute")
    /\ last.pre.s = \hFD
    /\ Get(ram, \h00FD) = \h80
    /\ Get(last.pre.ram, \h00FD) # \h80
    /\ Get(ram, \h01FD) = Get(last.pre.ram, \h01FD)
    /\ Get(ram, \h01FD) # \h80

\* operand bytes an instruction in `mode` consumes
OperandCount(mode) ==
    CASE mode \in {"Implied", "Accumulator"} -> 0
      [] mode \in {"Immediate", "ZeroPage", "ZeroPageX", "Relative",
                   "IndexedIndirect"} -> 1
      [] mode \in {"Absolute", "AbsoluteX"} -> 2

CountedModes ==
    {"Implied", "Accumulator", "Immediate", "ZeroPage", "ZeroPageX", "Relative",
     "IndexedIndirect", "Absolute", "AbsoluteX"}

\* execute_instruction has returned from an instruction that sets pc itself:
\* JMP, JSR, or a branch whose condition held
Jumped ==
    \/ last.instr[1][1] \in {"JMP", "JSR"}
    \/ /\ last.instr[1][1] \in {"BMI", "BNE", "BPL", "BVC"}
       /\ BranchCondition(last.instr[1][1])

\* execute_instruction has returned
Returned == phase = "interrupt" /\ panic = NoPanic /\ last.op = "execute"

\* C30: when execute_instruction returns from an instruction other than JMP,
\* JSR and a taken branch, pc is the old pc + 1 + n, n the number of operand
\* bytes of the addressing mode: 0 for Implied and Accumulator, 1 for
\* Immediate, ZeroPage, ZeroPageX, Relative and IndexedIndirect, 2 for
\* Absolute and AbsoluteX.
C30_OperandConsumption ==
    Returned /\ ~Jumped /\ last.instr[2] \in CountedModes =>
        pc = (last.pre.pc + 1 + OperandCount(last.instr[2])) % Word

\* SLO ($10,X) at 0x8000 returns with pc = 0x8002
C30_Witness ==
    /\ Returned
    /\ last.instr[1] = Op("SLO")
    /\ last.instr[2] = "IndexedIndirect"
    /\ last.pre.pc = \h8000
    /\ OperandByte(1) = \h10
    /\ pc = \h8002


\* the last access of the PPU was to palette RAM
PaletteAccess == phase = "vram" /\ last.op \in {"read", "write"} /\ last.addr \in \h3F00 .. \h3FFF

IndexedLoadBytes == {\hBD, \h1C, \h3C, \h5C, \h7C, \hDC, \hFC}

\* an instruction of one of these bytes has returned
IndexedLoadDone == Returned /\ last.byte \in IndexedLoadBytes

\* C31: LDA AbsoluteX (0xBD) and the AbsoluteX NOPs (0x1C, 0x3C, 0x5C, 0x7C,
\* 0xDC, 0xFC) return 4 cycles when the operand word and the operand word plus
\* X modulo 2^16 have the same high byte and 5 cycles otherwise; with X = 0
\* they return 4.
C31_IndexedCycles ==
    IndexedLoadDone =>
        /\ last.instr[1] \in {Op("LDA"), Op("NOP")}
        /\ last.instr[2] = "AbsoluteX"
        /\ last.cycle = (IF OperandWord \div 256 = IndexedWord \div 256 THEN 4 ELSE 5)
        /\ last.pre.x = 0 => last.cycle = 4

\* NOP $01FF,X (0xDC) with X = 1 returns 5 cycles
C31_Witness ==
    /\ IndexedLoadDone
    /\ last.byte = \hDC
    /\ OperandWord = \h01FF
    /\ last.pre.x = 1
    /\ last.cycle = 5

\* the value ISC writes back, the borrow it takes in and the value it subtracts
IscIncremented == (read(last.pre, IndexedWord).v + 1) % Byte
IscBorrowIn == IF WasSet(Carry) THEN 0 ELSE 1
IscSubtrahend == IscIncremented + IscBorrowIn

\* C32: ISC (0xFF, AbsoluteX) writes M' = (M + 1) mod 256 back to the cell it
\* addresses, sets A to (A - M' - (1 - C)) mod 256, sets Zero and Negative from
\* the new A, and sets Carry iff A >= M' + (1 - C), with A and C as they
\* were before the instruction.
C32_IscBorrow ==
    Executed("ISC", "AbsoluteX") =>
        /\ read(Machine, IndexedWord).v = IscIncremented
        /\ a = (last.pre.a + 2 * Byte - IscSubtrahend) % Byte
        /\ FlagSet(Zero) <=> a = 0
        /\ FlagSet(Negative) <=> Bit(a, 128)
        /\ FlagSet(Carry) <=> last.pre.a >= IscSubtrahend

\* ISC with A = 0 and Carry set on a cell that becomes 1: A is 0xFF after a
\* borrow, and Carry is set
C32_Diverges ==
    /\ Executed("ISC", "AbsoluteX")
    /\ last.pre.a = 0
    /\ WasSet(Carry)
    /\ IscIncremented = 1
    /\ a = \hFF
    /\ FlagSet(Carry)

\* the access just made, in the range the memory map leaves unimplemented
UnimplementedAccess ==
    /\ phase = "region"
    /\ last.op \in {"read", "write"}
    /\ last.addr \in \h2008 .. \h7FFF

\* C33: Cpu::read and Cpu::write put every address in the same region: a
\* write raises the read-only error exactly at 0x8000..0xFFFF, and an access
\* at 0x2008..0x7FFF raises no error and changes nothing, a read there
\* returning 0.
C33_RegionsAgree ==
    /\ phase = "region" /\ last.op = "write" =>
          (panic = "Cartridge space is read only" <=> last.addr \in PRG_ROM_BASE .. \hFFFF)
    /\ UnimplementedAccess =>
          /\ panic = NoPanic
          /\ Machine = last.pre
          /\ last.op = "read" => last.data = 0

\* a write at 0x7FFF, below the cartridge ROM, raises the read-only error
C33_Diverges ==
    /\ UnimplementedAccess
    /\ last.op = "write"
    /\ last.addr = \h7FFF
    /\ panic = "Cartridge space is read only"
    /\ read(last.pre, \h7FFF).v = 0
    /\ Ok(read(last.pre, \h7FFF).m)

\* only Memory::write and Memory::read have run on the Memory so far
MemoryOnly ==
    /\ phase = "ppu"
    /\ panic = NoPanic
    /\ \A i \in DOMAIN last.ops :
          last.ops[i] \in {"write PPUADDR", "write PPUDATA", "read PPUDATA"}

\* the writes to 0x2006 so far
AddrWriteCount == Cardinality({i \in DOMAIN last.ops : last.ops[i] = "write PPUADDR"})

\* C34: in Memory the first write to 0x2006 leaves the address state Higher,
\* the second Lower, the third Higher again, and so on, whatever reads and
\* other writes come between; a read leaves the state as it was.
C34_PhaseAlternates ==
    MemoryOnly =>
        /\ memory.ppu_addr_state =
              (IF AddrWriteCount = 0 THEN "None"
               ELSE IF AddrWriteCount % 2 = 1 THEN "Higher" ELSE "Lower")
        /\ last.op = "read PPUDATA" =>
              memory.ppu_addr_state = last.pre.memory.ppu_addr_state

\* the first write to 0x2006 of a new Memory leaves the address state Lower
C34_Diverges ==
    /\ MemoryOnly
    /\ last.ops = <<"write PPUADDR">>
    /\ last.pre.memory.ppu_addr_state = "None"
    /\ memory.ppu_addr_state = "Lower"

\* the address SLO takes from the zero-page pointer at operand + X, the byte
\* there before the instruction, and that byte shifted
SloPointer == (OperandByte(1) + last.pre.x) % Byte
SloTarget == read(last.pre, SloPointer).v + read(last.pre, SloPointer + 1).v * 256
SloOperand == read(last.pre, SloTarget).v
SloShifted == (SloOperand * 2) % Byte

\* C35: SLO (0x03, IndexedIndirect) leaves (M * 2) mod 256 in the memory cell
\* it addresses, Carry as bit 7 of M, A as the old A OR the shifted value, and
\* Zero and Negative as those of the new A.
C35_SloShiftOr ==
    Executed("SLO", "IndexedIndirect") =>
        /\ read(Machine, SloTarget).v = SloShifted
        /\ FlagSet(Carry) <=> Bit(SloOperand, 128)
        /\ a = BitOr(last.pre.a, SloShifted)
        /\ FlagSet(Zero) <=> a = 0
        /\ FlagSet(Negative) <=> Bit(a, 128)

\* SLO ($10,X) with X = 0 on a cell holding 0x10: A takes 0x20, the cell
\* still holds 0x10
C35_Diverges ==
    /\ Executed("SLO", "IndexedIndirect")
    /\ last.pre.x = 0
    /\ last.pre.a = 0
    /\ SloTarget = \h1110
    /\ SloOperand = \h10
    /\ a = \h20
    /\ Get(ram, \h0110) = \h10
    /\ ram = last.pre.ram

\* C36: the stack pointer is in 0x00..0xFF whenever an operation has
\* returned, a push at stack pointer 0x00 leaves it 0xFF (so JSR from 0x01
\* leaves 0xFF), and no push or pop indexes RAM outside its RAM_SIZE cells.
C36_StackPointerByte ==
    /\ panic = NoPanic => s \in 0 .. \hFF
    /\ panic # "index out of bounds: ram"
    /\ Executed("JSR", "Absolute") /\ last.pre.s = 1 => s = \hFF

\* TXS with X = 1, then JSR: the return address is in cells 1 and 0 and the
\* stack pointer is 0xFFFF
C36_Diverges ==
    /\ Executed("JSR", "Absolute")
    /\ last.pre.s = 1
    /\ last.pre.x = 1
    /\ Get(ram, 1) = \h80 /\ Get(ram, 0) = \h04
    /\ s = \hFFFF

\* TXS with X = 0, then JSR: the second push indexes RAM at 0xFFFF
PushOutOfRange ==
    /\ Attempted("JSR", "Absolute")
    /\ last.pre.s = 0
    /\ panic = "index out of bounds: ram"

\* operand + X inside the zero page, and the address fetch_addressed_data
\* gives the instruction executed
WrappedCell == (OperandByte(1) + last.pre.x) % Byte
FetchedAddress == Unwrap(fetch_addressed_data(fetch_byte(last.pre).m, "ZeroPageX").addr)

\* C37: in ZeroPageX mode ASL (0x16), DEC (0xD6) and the NOPs address the
\* cell (operand + X) mod 256, inside 0x0000..0x00FF: ASL and DEC change that
\* cell and no other, and the address ASL and the NOPs are given is that cell.
C37_ZeroPageWrap ==
    /\ \A name \in {"ASL", "NOP"} :
          Executed(name, "ZeroPageX") => FetchedAddress = WrappedCell
    /\ Executed("ASL", "ZeroPageX") =>
          ram = Set(last.pre.ram, WrappedCell, (Get(last.pre.ram, WrappedCell) * 2) % Byte)
    /\ Executed("DEC", "ZeroPageX") =>
          ram = Set(last.pre.ram, WrappedCell, (Get(last.pre.ram, WrappedCell) + 255) % Byte)

\* ASL $FF,X with X = 1 shifts the cell at 0x0100 from 0x70 to 0xE0 and
\* leaves the cell at 0x0000 alone
C37_Diverges ==
    /\ Executed("ASL", "ZeroPageX")
    /\ OperandByte(1) = \hFF
    /\ last.pre.x = 1
    /\ WrappedCell = 0
    /\ FetchedAddress = \h0100
    /\ Get(last.pre.ram, \h0100) = \h70
    /\ Get(ram, \h0100) = \hE0
    /\ Get(ram, 0) = Get(last.pre.ram, 0)

\* the last access of the PPU was to a nametable or a nametable mirror
NametableAccess ==
    phase = "vram" /\ last.op \in {"read", "write"} /\ last.addr \in \h2000 .. \h3EFF

\* the address in 0x3000..0x3EFF or 0x2000..0x2EFF of the same cell, if any
NametableAlias(addr) ==
    IF addr \in \h2000 .. \h2EFF THEN {addr + \h1000}
    ELSE IF addr \in \h3000 .. \h3EFF THEN {addr - \h1000}
    ELSE {}

\* C38: a read or write of the PPU at an address in 0x2000..0x3EFF accesses
\* a cell of the VRAM_SIZE-byte buffer and raises no error, and a byte written
\* at an address is read back there and at its alias 0x1000 above or below.
C38_VramInRange ==
    NametableAccess =>
        /\ panic = NoPanic
        /\ last.op = "write" =>
              \A addr \in {last.addr} \cup NametableAlias(last.addr) :
                  /\ Ok(Ppu_read(Machine, addr).m)
                  /\ Ppu_read(Machine, addr).v = last.data

\* a read at 0x2000, the first nametable byte and the one the first band
\* reads, indexes vram at 0x2000
C38_Diverges ==
    /\ NametableAccess
    /\ last.op = "read"
    /\ last.addr = \h2000
    /\ last.addr >= VRAM_SIZE
    /\ steps = 1
    /\ panic = "index out of bounds: vram"

\* a step after Ppu::init with nothing but steps in between
StepAfterInit ==
    /\ phase = "ppu"
    /\ last.op = "step"
    /\ last.ops[1] = "init"
    /\ \A i \in 2 .. Len(last.ops) : last.ops[i] = "step"

\* C39: after Ppu::init and before any access of the CPU to the registers,
\* a step starts no VRAM or character-ROM read or write and raises no error,
\* however many steps there are.
C39_InitIdle ==
    StepAfterInit =>
        /\ Transfers(last.pre) = 0
        /\ panic = NoPanic
        /\ ppu.vram = last.pre.ppu.vram

\* init leaves the address state Lower and the data state Written; the first
\* step starts a write at address 0x0000 and panics in it
C39_Diverges ==
    /\ StepAfterInit
    /\ last.ops = <<"init", "step">>
    /\ last.pre.memory.ppu_addr_state = "Lower"
    /\ last.pre.memory.ppu_data_state = "Written"
    /\ last.pre.ppu.ppu_addr = 0
    /\ panic = "Write access is forbidden"

====
